---- MODULE Spec2Model ----
(***************************************************************************)
(* KAM Sentinel: the threshold profile store (thresholds.py) and the       *)
(* warning evaluator with its rolling windows (server.py, _warnings),      *)
(* together with the process life cycle that connects them: start-up load, *)
(* /api/stats, /api/thresholds (POST), /api/thresholds/reset, and a crash  *)
(* of the process.                                                         *)
(*                                                                         *)
(* Conventions of the model                                                *)
(*   - Python None for an optional reading is the empty tuple <<>>, a      *)
(*     present reading v is <<v>>.                                         *)
(*   - Temperatures, percentages and KB/s are integers.  Voltages are in   *)
(*     centivolts (0.9 V = 90, 1.45 V = 145).                              *)
(*   - A mean sum/len is never formed as a float: comparisons with it are  *)
(*     cross-multiplied, and its formatting rounds the exact quotient.     *)
(*   - A table key is the tuple of its characters; a hardware name is a    *)
(*     string in the state and the tuple of its characters (chars) where   *)
(*     detect_thresholds looks into it.                                    *)
(***************************************************************************)
EXTENDS Integers, Sequences, FiniteSets, TLC

(***************************************************************************)
(* Bounds of the model (not program constants).                            *)
(***************************************************************************)
\* _warnings calls per process life under Spec
MaxCalls == 2
\* _warnings calls per process life under SpecSustain, and how many of their CPU
\* usage readings may be low
MaxSustainCalls == 14
MaxLows == 1
\* _warnings calls per process life under SpecNet, and how many of their download
\* readings may be bursts
MaxNetCalls == 38
MaxBursts == 1
\* _warnings calls per process life under SpecUpdate
MaxUpdateCalls == 2
\* request threads, and _warnings calls per process life, under SpecThreads
MaxThreads == 2
MaxThreadCalls == 3
\* detect_thresholds calls in a row under SpecDetect
MaxDetectCalls == 2
\* under SpecRate: how far the clock moves at a time (ms), how many times it moves,
\* how many requests arrive and how many threads serve them
TickMs == 500
MaxTicks == 2
MaxRequests == 7
MaxRateThreads == 2
\* under SpecGuard: request threads, POST requests of the remote address and of the
\* local addresses
MaxGuardThreads == 1
MaxRemotePosts == 11
MaxLocalPosts == 1
\* under SpecBench: request threads and POST /api/forge/benchmark requests
MaxBenchThreads == 2
MaxBenchPosts == 4
\* under SpecLog: request threads, GET /api/stats requests, POST /api/shutdown requests,
\* minutes that pass
MaxLogThreads == 2
MaxLogRequests == 3
MaxShutdowns == 1
MaxMinutes == 1
\* under SpecGpu: /api/stats calls, and those among them with a null gpu.usage
MaxGpuCalls == 14
MaxNulls == 1
\* /api/stats calls under SpecBoundary
MaxBoundaryCalls == 3
\* /api/stats calls under SpecMix
MaxMixCalls == 2
\* under SpecFeedback: request threads, submissions, half hours that pass
MaxFbThreads == 2
MaxFeedbacks == 3
MaxHalfHours == 2
\* bug reports written to bug.jsonl, and cycles of the bug poll
MaxReports == 3
MaxBugCycles == 2
\* polls of the launcher's watch thread
MaxPolls == 10

(***************************************************************************)
(* thresholds.py: the static tables and the generic defaults.              *)
(***************************************************************************)
CPU_THERMAL_MAP ==
  <<
    [key |-> <<"r","y","z","e","n"," ","7"," ","5","8","0","0","x">>,
     vals |-> [temp_warn |-> 75, temp_crit |-> 90, volt_min |-> 90, volt_max |-> 145]],  \* "ryzen 7 5800x"
    [key |-> <<"r","y","z","e","n"," ","9"," ","5","9","0","0","x">>,
     vals |-> [temp_warn |-> 75, temp_crit |-> 90, volt_min |-> 90, volt_max |-> 145]],  \* "ryzen 9 5900x"
    [key |-> <<"r","y","z","e","n"," ","9"," ","5","9","5","0","x">>,
     vals |-> [temp_warn |-> 75, temp_crit |-> 90, volt_min |-> 90, volt_max |-> 145]],  \* "ryzen 9 5950x"
    [key |-> <<"r","y","z","e","n"," ","5"," ","5","6","0","0","x">>,
     vals |-> [temp_warn |-> 75, temp_crit |-> 90, volt_min |-> 90, volt_max |-> 145]],  \* "ryzen 5 5600x"
    [key |-> <<"r","y","z","e","n"," ","9"," ","7","9","5","0","x">>,
     vals |-> [temp_warn |-> 85, temp_crit |-> 95, volt_min |-> 90, volt_max |-> 135]],  \* "ryzen 9 7950x"
    [key |-> <<"r","y","z","e","n"," ","9"," ","7","9","0","0","x">>,
     vals |-> [temp_warn |-> 85, temp_crit |-> 95, volt_min |-> 90, volt_max |-> 135]],  \* "ryzen 9 7900x"
    [key |-> <<"r","y","z","e","n"," ","7"," ","7","7","0","0","x">>,
     vals |-> [temp_warn |-> 85, temp_crit |-> 95, volt_min |-> 90, volt_max |-> 135]],  \* "ryzen 7 7700x"
    [key |-> <<"r","y","z","e","n"," ","9"," ","3","9","0","0","x">>,
     vals |-> [temp_warn |-> 70, temp_crit |-> 85, volt_min |-> 90, volt_max |-> 145]],  \* "ryzen 9 3900x"
    [key |-> <<"r","y","z","e","n"," ","7"," ","3","7","0","0","x">>,
     vals |-> [temp_warn |-> 70, temp_crit |-> 85, volt_min |-> 90, volt_max |-> 145]],  \* "ryzen 7 3700x"
    [key |-> <<"i","9","-","1","3","9","0","0">>,
     vals |-> [temp_warn |-> 90, temp_crit |-> 100, volt_min |-> 90, volt_max |-> 152]],  \* "i9-13900"
    [key |-> <<"i","9","-","1","2","9","0","0">>,
     vals |-> [temp_warn |-> 85, temp_crit |-> 100, volt_min |-> 90, volt_max |-> 152]],  \* "i9-12900"
    [key |-> <<"i","7","-","1","3","7","0","0">>,
     vals |-> [temp_warn |-> 85, temp_crit |-> 100, volt_min |-> 90, volt_max |-> 152]],  \* "i7-13700"
    [key |-> <<"i","7","-","1","2","7","0","0">>,
     vals |-> [temp_warn |-> 80, temp_crit |-> 100, volt_min |-> 90, volt_max |-> 152]],  \* "i7-12700"
    [key |-> <<"i","5","-","1","3","6","0","0">>,
     vals |-> [temp_warn |-> 80, temp_crit |-> 100, volt_min |-> 90, volt_max |-> 152]],  \* "i5-13600"
    [key |-> <<"i","9","-","1","0","9","0","0">>,
     vals |-> [temp_warn |-> 80, temp_crit |-> 100, volt_min |-> 90, volt_max |-> 152]],  \* "i9-10900"
    [key |-> <<"i","7","-","1","0","7","0","0">>,
     vals |-> [temp_warn |-> 80, temp_crit |-> 100, volt_min |-> 90, volt_max |-> 152]]  \* "i7-10700"
  >>

GPU_THERMAL_MAP ==
  <<
    [key |-> <<"r","t","x"," ","4","0","9","0">>, vals |-> [temp_warn |-> 80, temp_crit |-> 90]],  \* "rtx 4090"
    [key |-> <<"r","t","x"," ","4","0","8","0">>, vals |-> [temp_warn |-> 80, temp_crit |-> 90]],  \* "rtx 4080"
    [key |-> <<"r","t","x"," ","4","0","7","0">>, vals |-> [temp_warn |-> 80, temp_crit |-> 90]],  \* "rtx 4070"
    [key |-> <<"r","t","x"," ","4","0","6","0">>, vals |-> [temp_warn |-> 80, temp_crit |-> 90]],  \* "rtx 4060"
    [key |-> <<"r","t","x"," ","3","0","9","0">>, vals |-> [temp_warn |-> 80, temp_crit |-> 93]],  \* "rtx 3090"
    [key |-> <<"r","t","x"," ","3","0","8","0">>, vals |-> [temp_warn |-> 80, temp_crit |-> 93]],  \* "rtx 3080"
    [key |-> <<"r","t","x"," ","3","0","7","0">>, vals |-> [temp_warn |-> 80, temp_crit |-> 93]],  \* "rtx 3070"
    [key |-> <<"r","t","x"," ","3","0","6","0">>, vals |-> [temp_warn |-> 80, temp_crit |-> 93]],  \* "rtx 3060"
    [key |-> <<"r","t","x"," ","2","0","8","0">>, vals |-> [temp_warn |-> 80, temp_crit |-> 94]],  \* "rtx 2080"
    [key |-> <<"r","t","x"," ","2","0","7","0">>, vals |-> [temp_warn |-> 80, temp_crit |-> 94]],  \* "rtx 2070"
    [key |-> <<"r","t","x"," ","2","0","6","0">>, vals |-> [temp_warn |-> 80, temp_crit |-> 94]],  \* "rtx 2060"
    [key |-> <<"r","x"," ","6","9","0","0">>, vals |-> [temp_warn |-> 80, temp_crit |-> 110]],  \* "rx 6900"
    [key |-> <<"r","x"," ","6","8","0","0">>, vals |-> [temp_warn |-> 80, temp_crit |-> 110]],  \* "rx 6800"
    [key |-> <<"r","x"," ","6","7","0","0">>, vals |-> [temp_warn |-> 80, temp_crit |-> 110]],  \* "rx 6700"
    [key |-> <<"r","x"," ","6","6","0","0">>, vals |-> [temp_warn |-> 80, temp_crit |-> 110]],  \* "rx 6600"
    [key |-> <<"r","x"," ","7","9","0","0">>, vals |-> [temp_warn |-> 80, temp_crit |-> 110]],  \* "rx 7900"
    [key |-> <<"r","x"," ","7","8","0","0">>, vals |-> [temp_warn |-> 80, temp_crit |-> 110]],  \* "rx 7800"
    [key |-> <<"r","x"," ","7","7","0","0">>, vals |-> [temp_warn |-> 80, temp_crit |-> 110]]  \* "rx 7700"
  >>

DEFAULT_THRESHOLDS ==
  [cpu     |-> [temp_warn |-> 75, temp_crit |-> 90, volt_min |-> 90, volt_max |-> 145,
                usage_warn |-> 85, usage_crit |-> 95, usage_sustain_sec |-> 30],
   gpu     |-> [temp_warn |-> 80, temp_crit |-> 95,
                usage_warn |-> 90, usage_crit |-> 98, usage_sustain_sec |-> 30],
   ram     |-> [usage_warn |-> 80, usage_crit |-> 92],
   network |-> [spike_multiplier |-> 5, baseline_samples |-> 12],
   voltage |-> [cpu_min |-> 90, cpu_max |-> 145]]

UPPER == <<"A","B","C","D","E","F","G","H","I","J","K","L","M",
           "N","O","P","Q","R","S","T","U","V","W","X","Y","Z">>
LOWER == <<"a","b","c","d","e","f","g","h","i","j","k","l","m",
           "n","o","p","q","r","s","t","u","v","w","x","y","z">>

\* str.lower() on one character
lower_char(c) ==
  IF \E j \in 1..Len(UPPER) : UPPER[j] = c
    THEN LOWER[CHOOSE j \in 1..Len(UPPER) : UPPER[j] = c]
    ELSE c

\* str.lower() on a tuple of characters
RECURSIVE lower(_)
lower(s) == IF s = <<>> THEN <<>> ELSE <<lower_char(Head(s))>> \o lower(Tail(s))

\* Python's  key in s  for strings: key is a contiguous substring of s
IsSubstring(key, s) ==
  \E i \in 0..(Len(s) - Len(key)) :
     \A j \in 1..Len(key) : s[i + j] = key[j]

\* for key, vals in map.items(): if key in name: ...   without the break
\* faulty variant, for sensitivity: the last matching entry wins
LastMatch(map, name) ==
  IF \E i \in 1..Len(map) : IsSubstring(map[i].key, name)
    THEN CHOOSE i \in 1..Len(map) :
           /\ IsSubstring(map[i].key, name)
           /\ \A j \in (i + 1)..Len(map) : ~IsSubstring(map[j].key, name)
    ELSE 0

\* for key, vals in map.items(): if key in name: ...; break
\* the first entry at or after i, in table order, whose key is in name (0: none)
RECURSIVE FirstMatchFrom(_, _, _)
FirstMatchFrom(map, name, i) ==
  IF i > Len(map) THEN 0
  ELSE IF IsSubstring(map[i].key, name) THEN i
  ELSE FirstMatchFrom(map, name, i + 1)

FirstMatch(map, name) == FirstMatchFrom(map, name, 1)

\* the characters of the hardware names the model's machines report
chars(name) ==
  CASE name = "AMD Ryzen 9 7950X" ->
         <<"A","M","D"," ","R","y","z","e","n"," ","9"," ","7","9","5","0","X">>
    [] name = "AMD Ryzen 9 5900X" ->
         <<"A","M","D"," ","R","y","z","e","n"," ","9"," ","5","9","0","0","X">>
    [] name = "INTEL(R) CORE(TM) I9-13900K" ->
         <<"I","N","T","E","L","(","R",")"," ","C","O","R","E","(","T","M",")"," ","I","9","-","1","3","9","0","0","K">>
    [] name = "Unknown CPU" ->
         <<"U","n","k","n","o","w","n"," ","C","P","U">>
    [] name = "NVIDIA GeForce RTX 3080" ->
         <<"N","V","I","D","I","A"," ","G","e","F","o","r","c","e"," ","R","T","X"," ","3","0","8","0">>
    [] name = "NVIDIA GeForce RTX 4090 + RTX 3080" ->
         <<"N","V","I","D","I","A"," ","G","e","F","o","r","c","e"," ","R","T","X"," ","4","0","9","0"," ","+"," ","R","T","X"," ","3","0","8","0">>
    [] name = "Unknown GPU" ->
         <<"U","n","k","n","o","w","n"," ","G","P","U">>
    [] name = "" -> <<>>

\* Python None passed where a hardware name is expected
NoName == "<None>"

\* name or ''   and   name or 'Unknown'
or_empty(name) == IF name = NoName THEN "" ELSE name
or_unknown(name) == IF name \in {NoName, ""} THEN "Unknown" ELSE name

\* lines 101-127 on thresholds, the copy of the defaults that line 99 made
detect_on(thresholds, cpu_name, gpu_name) ==
  LET d  == thresholds
      ci == FirstMatch(CPU_THERMAL_MAP, lower(chars(or_empty(cpu_name))))
      gi == FirstMatch(GPU_THERMAL_MAP, lower(chars(or_empty(gpu_name))))
      cv == CPU_THERMAL_MAP[ci].vals
      gv == GPU_THERMAL_MAP[gi].vals
      cpu == IF ci = 0 THEN d.cpu
             ELSE [d.cpu EXCEPT !.temp_warn = cv.temp_warn, !.temp_crit = cv.temp_crit,
                                !.volt_min = cv.volt_min, !.volt_max = cv.volt_max]
      vol == IF ci = 0 THEN d.voltage
             ELSE [d.voltage EXCEPT !.cpu_min = cv.volt_min, !.cpu_max = cv.volt_max]
      gpu == IF gi = 0 THEN d.gpu
             ELSE [d.gpu EXCEPT !.temp_warn = gv.temp_warn, !.temp_crit = gv.temp_crit]
  IN  [cpu |-> cpu, gpu |-> gpu, ram |-> d.ram, network |-> d.network, voltage |-> vol,
       detected_from |-> [cpu |-> or_unknown(cpu_name), gpu |-> or_unknown(gpu_name)]]

\* line 99 copies DEFAULT_THRESHOLDS through json, so the writes of lines 107-119 land
\* on the copy and every call starts from the table as written in the source
detect_thresholds(cpu_name, gpu_name) ==
  detect_on(DEFAULT_THRESHOLDS, cpu_name, gpu_name)

\* the hardware names of the model's machines
CpuNames == {"AMD Ryzen 9 7950X", ""}
GpuNames == {"NVIDIA GeForce RTX 3080", ""}

\* detect_thresholds for each of the model's machines, computed once
DetectCache == [c \in CpuNames, g \in GpuNames |-> detect_thresholds(c, g)]
detected(cpu_name, gpu_name) == DetectCache[cpu_name, gpu_name]

(***************************************************************************)
(* Small helpers standing for Python built-ins.                            *)
(***************************************************************************)
\* Python None as the value of _thresh
None == [py_none |-> TRUE]

Max(a, b) == IF a >= b THEN a ELSE b

RECURSIVE Sum(_)
Sum(s) == IF s = <<>> THEN 0 ELSE s[1] + Sum(Tail(s))

\* list(q)[-n:] for 1 <= n <= len(q)
LastN(q, n) == SubSeq(q, Len(q) - n + 1, Len(q))

\* format(num/den, '.0f'): the exact quotient rounded to an integer, ties to even
RoundHalfEven(num, den) ==
  LET q == num \div den
      r == num % den
  IN  IF 2 * r < den THEN q
      ELSE IF 2 * r > den THEN q + 1
      ELSE IF q % 2 = 0 THEN q ELSE q + 1

\* collections.deque(maxlen = maxlen).append(x): the oldest entry leaves a full deque
deque_append(q, x, maxlen) ==
  IF Len(q) >= maxlen THEN Append(Tail(q), x) ELSE Append(q, x)

\* _sustained = {'cpu': deque(maxlen=12), 'gpu': deque(maxlen=12)}
SUSTAINED_MAXLEN == 12
\* _net_base = deque(maxlen=36)
NET_BASE_MAXLEN == 36
\* sn = max(1, t['cpu']['usage_sustain_sec']//5): the divisor
POLL_DIVISOR == 5
\* if ab > 10 and ...: the baseline floor
BASELINE_FLOOR == 10

(***************************************************************************)
(* Python values at the leaves of a profile or of a request payload.  A    *)
(* number is itself; the values that are not numbers are coded by integers *)
(* below every number the program handles, one code per kind of value that *)
(* _validate, dict.update and the comparisons of _warnings treat alike.    *)
(***************************************************************************)
\* a str of at most 100 characters, e.g. "hot"
PY_STR == 0 - 1000001
\* a str of more than 100 characters
PY_LONG_STR == 0 - 1000002
\* None (JSON null)
PY_NULL == 0 - 1000003
\* True (JSON true): an int for isinstance and for arithmetic, where it counts as 1
PY_TRUE == 0 - 1000004
\* a dict of numbers in range, e.g. {"a": 1}
PY_DICT == 0 - 1000005
\* a dict nested so deep that its innermost value lies beyond depth 3
PY_DEEP_DICT == 0 - 1000006
\* a list, e.g. [1, 2]
PY_LIST == 0 - 1000007

NotNumbers == {PY_STR, PY_LONG_STR, PY_NULL, PY_TRUE, PY_DICT, PY_DEEP_DICT, PY_LIST}

\* isinstance(v, (int, float)): bool is a subclass of int
IsIntOrFloat(v) == v \notin (NotNumbers \ {PY_TRUE})

\* the number v stands for in a comparison or in arithmetic
numval(v) == IF v = PY_TRUE THEN 1 ELSE v

(***************************************************************************)
(* server.py, _warnings: the rules, in the order of the code.              *)
(***************************************************************************)
\* faulty variant, for sensitivity: the guard lets None through to the comparison
TruthyNoGuard(opt) == TRUE

\* Python truthiness of an optional number:  if ct:  skips None and also 0
Truthy(opt) == opt # <<>> /\ opt[1] # 0

\* dict(id=..., level=..., component=..., message=f'...'); the f-string is kept as its
\* literal text, the one value it interpolates, and the unit after it ("C" is the
\* degree sign and C)
Message(text, shown, unit) == [text |-> text, shown |-> shown, unit |-> unit]

Warning(id, level, component, message) ==
  [id |-> id, level |-> level, component |-> component, message |-> message]

\* the outcome of a group of rules: the warnings appended, or the exception raised
Ok(w) == [exc |-> "", w |-> w]
Raise(exc) == [exc |-> exc, w |-> <<>>]

\* lines 725-727
CpuTempRule(t, ct) ==
  IF ~Truthy(ct) THEN Ok(<<>>)
  ELSE IF ct = <<>> THEN Raise("TypeError")
  ELSE IF ~IsIntOrFloat(t.cpu.temp_crit) THEN Raise("TypeError")
  ELSE IF ct[1] >= numval(t.cpu.temp_crit)
    THEN Ok(<<Warning("cpu_temp_crit", "critical", "CPU", Message("CPU temp critical: ", ct[1], "C"))>>)
  ELSE IF ~IsIntOrFloat(t.cpu.temp_warn) THEN Raise("TypeError")
  ELSE IF ct[1] >= numval(t.cpu.temp_warn)
    THEN Ok(<<Warning("cpu_temp_warn", "warning", "CPU", Message("CPU temp elevated: ", ct[1], "C"))>>)
  ELSE Ok(<<>>)

\* faulty variant, for sensitivity: any GPU temperature reading is reported as elevated
GpuTempRuleNoThreshold(t, gt) ==
  IF ~Truthy(gt) THEN Ok(<<>>)
  ELSE Ok(<<Warning("gpu_temp_warn", "warning", "GPU", Message("GPU temp elevated: ", gt[1], "C"))>>)

\* lines 728-730
GpuTempRule(t, gt) ==
  IF ~Truthy(gt) THEN Ok(<<>>)
  ELSE IF gt = <<>> THEN Raise("TypeError")
  ELSE IF ~IsIntOrFloat(t.gpu.temp_crit) THEN Raise("TypeError")
  ELSE IF gt[1] >= numval(t.gpu.temp_crit)
    THEN Ok(<<Warning("gpu_temp_crit", "critical", "GPU", Message("GPU temp critical: ", gt[1], "C"))>>)
  ELSE IF ~IsIntOrFloat(t.gpu.temp_warn) THEN Raise("TypeError")
  ELSE IF gt[1] >= numval(t.gpu.temp_warn)
    THEN Ok(<<Warning("gpu_temp_warn", "warning", "GPU", Message("GPU temp elevated: ", gt[1], "C"))>>)
  ELSE Ok(<<>>)

\* lines 731-733
VoltageRule(t, cv) ==
  IF ~Truthy(cv) THEN Ok(<<>>)
  ELSE IF cv = <<>> THEN Raise("TypeError")
  ELSE IF ~IsIntOrFloat(t.voltage.cpu_max) THEN Raise("TypeError")
  ELSE IF cv[1] > numval(t.voltage.cpu_max)
    THEN Ok(<<Warning("cpu_volt_high", "critical", "Voltage", Message("CPU voltage high: ", cv[1], "V"))>>)
  ELSE IF ~IsIntOrFloat(t.voltage.cpu_min) THEN Raise("TypeError")
  ELSE IF cv[1] < numval(t.voltage.cpu_min)
    THEN Ok(<<Warning("cpu_volt_low", "warning", "Voltage", Message("CPU voltage low: ", cv[1], "V"))>>)
  ELSE Ok(<<>>)

\* faulty variant, for sensitivity: the message interpolates the threshold instead of the reading
RamRuleShowsThreshold(t, rp) ==
  IF rp >= t.ram.usage_crit
    THEN Ok(<<Warning("ram_crit", "critical", "RAM",
                      Message("RAM critical: ", t.ram.usage_crit, "%"))>>)
  ELSE IF rp >= t.ram.usage_warn
    THEN Ok(<<Warning("ram_warn", "warning", "RAM",
                      Message("RAM high: ", t.ram.usage_warn, "%"))>>)
  ELSE Ok(<<>>)

\* lines 734-735
RamRule(t, rp) ==
  IF ~IsIntOrFloat(t.ram.usage_crit) THEN Raise("TypeError")
  ELSE IF rp >= numval(t.ram.usage_crit)
    THEN Ok(<<Warning("ram_crit", "critical", "RAM", Message("RAM critical: ", rp, "%"))>>)
  ELSE IF ~IsIntOrFloat(t.ram.usage_warn) THEN Raise("TypeError")
  ELSE IF rp >= numval(t.ram.usage_warn)
    THEN Ok(<<Warning("ram_warn", "warning", "RAM", Message("RAM high: ", rp, "%"))>>)
  ELSE Ok(<<>>)

\* faulty variant, for sensitivity: a null reading is pushed like any other
gpu_appendPushesNull(q, gu) ==
  deque_append(q, IF gu # <<>> THEN gu[1] ELSE 0, SUSTAINED_MAXLEN)

\* line 741: if gpu['usage'] is not None: _sustained['gpu'].append(gpu['usage'])
gpu_append(q, gu) ==
  IF gu # <<>> THEN deque_append(q, gu[1], SUSTAINED_MAXLEN) ELSE q

\* line 737
SustainCount(t) == Max(1, numval(t.cpu.usage_sustain_sec) \div POLL_DIVISOR)

\* line 737 as a statement:  //  raises on a value that is not a number
SustainCountRule(t) ==
  IF IsIntOrFloat(t.cpu.usage_sustain_sec) THEN Ok(<<>>) ELSE Raise("TypeError")

\* lines 742-745, on cs = list(_sustained['cpu']) taken after the append and on the sn
\* of line 737
CpuSustainOn(t, cs, sn) ==
  IF Len(cs) >= sn
    THEN IF ~IsIntOrFloat(t.cpu.usage_crit) THEN Raise("TypeError")
         ELSE IF Sum(cs) >= numval(t.cpu.usage_crit) * Len(cs)
           THEN Ok(<<Warning("cpu_sc", "critical", "CPU",
                             Message("CPU sustained ", RoundHalfEven(Sum(cs), Len(cs)), "%"))>>)
         ELSE IF ~IsIntOrFloat(t.cpu.usage_warn) THEN Raise("TypeError")
         ELSE IF Sum(cs) >= numval(t.cpu.usage_warn) * Len(cs)
           THEN Ok(<<Warning("cpu_sw", "warning", "CPU",
                             Message("CPU sustained ", RoundHalfEven(Sum(cs), Len(cs)), "%"))>>)
         ELSE Ok(<<>>)
    ELSE Ok(<<>>)

\* lines 737 and 742-745 in a call that reads every threshold from the same profile
CpuSustainRule(t, cs) == CpuSustainOn(t, cs, SustainCount(t))

\* lines 746-749, on gs = list(_sustained['gpu']) after the append, or None (<<>>)
\* when gpu['usage'] is None; the count compared with is the CPU's sn
GpuSustainOn(t, gs, sn) ==
  IF gs # <<>> /\ Len(gs) >= sn
    THEN IF ~IsIntOrFloat(t.gpu.usage_crit) THEN Raise("TypeError")
         ELSE IF Sum(gs) >= numval(t.gpu.usage_crit) * Len(gs)
           THEN Ok(<<Warning("gpu_sc", "critical", "GPU",
                             Message("GPU sustained ", RoundHalfEven(Sum(gs), Len(gs)), "%"))>>)
         ELSE IF ~IsIntOrFloat(t.gpu.usage_warn) THEN Raise("TypeError")
         ELSE IF Sum(gs) >= numval(t.gpu.usage_warn) * Len(gs)
           THEN Ok(<<Warning("gpu_sw", "warning", "GPU",
                             Message("GPU sustained ", RoundHalfEven(Sum(gs), Len(gs)), "%"))>>)
         ELSE Ok(<<>>)
    ELSE Ok(<<>>)

\* lines 737 and 746-749 in a call that reads every threshold from the same profile
GpuSustainRule(t, gs) == GpuSustainOn(t, gs, SustainCount(t))

\* faulty variant, for sensitivity: the  ab > 10  floor is missing
NetworkRuleNoFloor(t, nbq, net) ==
  LET nb == t.network.baseline_samples
      dn == net.download_kbps
  IN  IF Len(nbq) >= nb
        THEN IF nb = 0 THEN Raise("ZeroDivisionError")
             ELSE LET total == Sum(LastN(nbq, nb))
                  IN  IF dn * nb > total * t.network.spike_multiplier
                        THEN Ok(<<Warning("net_spike", "warning", "Network",
                                          Message("Network spike: ", net.download_display, ""))>>)
                        ELSE Ok(<<>>)
        ELSE Ok(<<>>)

\* lines 751-755, on nbq = _net_base taken after the append
NetworkRule(t, nbq, net) ==
  LET nb == numval(t.network.baseline_samples)
      dn == net.download_kbps
  IN  IF ~IsIntOrFloat(t.network.baseline_samples) THEN Raise("TypeError")
      ELSE IF Len(nbq) >= nb
        THEN IF nb = 0 THEN Raise("ZeroDivisionError")
             ELSE LET total == Sum(LastN(nbq, nb))
                  IN  IF total > BASELINE_FLOOR * nb
                        THEN IF ~IsIntOrFloat(t.network.spike_multiplier)
                               THEN Raise("TypeError")
                             ELSE IF dn * nb > total * numval(t.network.spike_multiplier)
                               THEN Ok(<<Warning("net_spike", "warning", "Network",
                                                 Message("Network spike: ",
                                                         net.download_display, ""))>>)
                             ELSE Ok(<<>>)
                        ELSE Ok(<<>>)
        ELSE Ok(<<>>)

\* faulty variant, for sensitivity: the later rule's warnings come first
ThenPrepends(r1, r2) ==
  IF r1.exc # "" THEN r1
  ELSE IF r2.exc # "" THEN r2
  ELSE Ok(r2.w \o r1.w)

\* r1 then r2: the first exception ends the call
Then(r1, r2) ==
  IF r1.exc # "" THEN r1
  ELSE IF r2.exc # "" THEN r2
  ELSE Ok(r1.w \o r2.w)

\* if not t: return w  -- None and the empty dict are both falsy
Falsy(t) == t = None \/ DOMAIN t = {}

\* _warnings(cpu, gpu, ram, net) with t = _thresh, on the windows sus = _sustained and
\* nbq = _net_base: the outcome (exc, w), whether the call got to its appends, and
\* the windows as it leaves them
_warnings(t, s, sus, nbq) ==
  IF Falsy(t)
    THEN [exc |-> "", w |-> <<>>, appended |-> FALSE, net_appended |-> FALSE,
          sustained |-> sus, net_base |-> nbq]
  ELSE
    LET inst == Then(Then(Then(Then(CpuTempRule(t, s.cpu.temp), GpuTempRule(t, s.gpu.temp)),
                               VoltageRule(t, s.cpu.voltage)),
                          RamRule(t, s.ram.usage_percent)),
                     SustainCountRule(t))
        cs   == deque_append(sus.cpu, s.cpu.usage, SUSTAINED_MAXLEN)
        gq   == gpu_append(sus.gpu, s.gpu.usage)
        gs   == IF s.gpu.usage # <<>> THEN gq ELSE <<>>
        nq   == deque_append(nbq, s.network.download_kbps, NET_BASE_MAXLEN)
        sust == Then(Then(inst, CpuSustainRule(t, cs)), GpuSustainRule(t, gs))
        all  == Then(sust, NetworkRule(t, nq, s.network))
    IN  IF inst.exc # ""
          THEN [exc |-> inst.exc, w |-> <<>>, appended |-> FALSE, net_appended |-> FALSE,
                sustained |-> sus, net_base |-> nbq]
        ELSE IF sust.exc # ""
          THEN [exc |-> sust.exc, w |-> <<>>, appended |-> TRUE, net_appended |-> FALSE,
                sustained |-> [cpu |-> cs, gpu |-> gq], net_base |-> nbq]
          ELSE [exc |-> all.exc, w |-> all.w, appended |-> TRUE, net_appended |-> TRUE,
                sustained |-> [cpu |-> cs, gpu |-> gq], net_base |-> nq]

\* _net_speed: fmt = lambda k: f'{k/1024:.2f} MB/s' if k > 1024 else f'{k:.0f} KB/s'
\* (the MB/s figure is kept in hundredths)
download_display(k) ==
  IF k > 1024 THEN <<RoundHalfEven(k * 100, 1024), "/100 MB/s">>
  ELSE <<k, " KB/s">>

\* the samples _live_stats can hand to _warnings, from the given sets of readings
Samples(CT, GT, CV, RP, CU, GU, DN) ==
  { [cpu     |-> [usage |-> cu, temp |-> ct, voltage |-> cv],
     gpu     |-> [usage |-> gu, temp |-> gt],
     ram     |-> [usage_percent |-> rp],
     network |-> [download_kbps |-> dn, download_display |-> download_display(dn)]] :
    ct \in CT, gt \in GT, cv \in CV, rp \in RP, cu \in CU, gu \in GU, dn \in DN }

(***************************************************************************)
(* thresholds.py: load and save.                                           *)
(***************************************************************************)
\* what profiles/thresholds.json can be: absent, unparseable as found, emptied by
\* open(path, 'w') and not yet written, or a dumped profile
Missing == [kind |-> "missing"]
Corrupt == [kind |-> "corrupt"]
Truncated == [kind |-> "truncated"]
Stored(p) == [kind |-> "ok", data |-> p]

\* faulty variant, for sensitivity: the defaults replace what the saved profile has
BackfillDefaultsWin(saved, defaults) ==
  [sec \in DOMAIN saved \cup DOMAIN defaults |->
     IF sec \notin DOMAIN saved THEN defaults[sec]
     ELSE IF sec \notin DOMAIN defaults THEN saved[sec]
     ELSE [k \in DOMAIN saved[sec] \cup DOMAIN defaults[sec] |->
             IF k \in DOMAIN defaults[sec] THEN defaults[sec][k] ELSE saved[sec][k]]]

\* load_thresholds, lines 137-145: every section and key of the defaults that the
\* saved profile lacks is added; what the saved profile has is kept
Backfill(saved, defaults) ==
  [sec \in DOMAIN saved \cup DOMAIN defaults |->
     IF sec \notin DOMAIN saved THEN defaults[sec]
     ELSE IF sec \notin DOMAIN defaults THEN saved[sec]
     ELSE [k \in DOMAIN saved[sec] \cup DOMAIN defaults[sec] |->
             IF k \in DOMAIN saved[sec] THEN saved[sec][k] ELSE defaults[sec][k]]]

\* load_thresholds(profile_dir, cpu_name, gpu_name) on the file f:
\* what it returns or raises, and whether it calls save_thresholds
load_thresholds(f, cpu_name, gpu_name) ==
  IF f.kind = "missing"
    THEN [exc |-> "", value |-> detected(cpu_name, gpu_name), saves |-> TRUE]
  ELSE IF f.kind = "ok" /\ f.data = None
    THEN \* json.load returns None;  section not in saved  raises
         [exc |-> "TypeError", value |-> None, saves |-> FALSE]
  ELSE IF f.kind = "ok"
    THEN [exc |-> "", value |-> Backfill(f.data, detected(cpu_name, gpu_name)),
          saves |-> FALSE]
  ELSE [exc |-> "JSONDecodeError", value |-> None, saves |-> FALSE]

\* save_thresholds: open(path, 'w') empties the file before json.dump writes it
save_open(f) == Truncated
\* faulty variant, for sensitivity: what is written is the generic table, not p
save_writeGeneric(p) == Stored(DEFAULT_THRESHOLDS)

\* save_thresholds: json.dump and the close of the with block
save_write(p) == Stored(p)

(***************************************************************************)
(* server.py: validation and merge of a POST /api/thresholds payload.      *)
(* A payload is a dict of sections; a section is a dict of leaf values, or  *)
(* a value that is no dict, written [py_scalar |-> v].                      *)
(***************************************************************************)
ALLOWED_THRESHOLD_KEYS == {"cpu", "gpu", "ram", "voltage", "network"}

\* _validate on a number: if not (0 <= d <= 10000): return False
RANGE_MAX == 10000
\* _validate on a dict: if len(d) > 20: return False
MAX_KEYS == 20

\* isinstance(v, dict) for the value v of a section
IsDict(v) == "py_scalar" \notin DOMAIN v

\* _validate on a value that is no dict reached at depth 1 or 2: a number (True
\* included) must lie in 0..10000, a str must have at most 100 characters, None
\* passes, a list is a bad type; a dict of numbers passes at depth 2 (its values
\* are at depth 3) unless it nests beyond depth 3
_validate_leaf(v) ==
  IF IsIntOrFloat(v) THEN 0 <= numval(v) /\ numval(v) <= RANGE_MAX
  ELSE v \in {PY_STR, PY_NULL, PY_DICT}

\* _validate(d) for a payload (depth 0), its sections (depth 1), their values (depth 2)
_validate(d) ==
  /\ Cardinality(DOMAIN d) <= MAX_KEYS
  /\ \A sec \in DOMAIN d :
       IF IsDict(d[sec])
         THEN /\ Cardinality(DOMAIN d[sec]) <= MAX_KEYS
              /\ \A k \in DOMAIN d[sec] : _validate_leaf(d[sec][k])
         ELSE _validate_leaf(d[sec].py_scalar)

\* the sections of d for which line 885 calls _thresh[k].update(v)
merged_sections(d) ==
  {sec \in DOMAIN d : sec \in ALLOWED_THRESHOLD_KEYS /\ IsDict(d[sec])}

\* for k,v in d.items():
\*   if k in ALLOWED_THRESHOLD_KEYS and isinstance(v, dict): _thresh[k].update(v)
\* (on _thresh = None with no section to merge, nothing is touched)
merge(t, d) ==
  IF t = None THEN t ELSE
  [sec \in DOMAIN t |->
     IF sec \in merged_sections(d)
       THEN [k \in DOMAIN t[sec] \cup DOMAIN d[sec] |->
               IF k \in DOMAIN d[sec] THEN d[sec][k] ELSE t[sec][k]]
       ELSE t[sec]]

(***************************************************************************)
(* The state.                                                              *)
(***************************************************************************)
VARIABLES
  pc,         \* the process: "down", "boot_saving", "warm" (thresholds loaded, first
              \* _live_stats pending), "up" (serving requests)
  sysinfo,    \* _sysinfo: cpu_name and gpu_name as detected
  thresh,     \* _thresh
  file,       \* profiles/thresholds.json
  io,         \* a save_thresholds call between its open and its write
  sustained,  \* _sustained
  net_base,   \* _net_base
  calls,      \* _warnings calls of this process life
  pushed,     \* every value appended to the windows in this process life, in order
  boot,       \* the kind of file the last start-up load found
  threads,    \* the request threads inside _live_stats: where each is and its locals
  state_lock, \* _state_lock: 0 when free, else the thread that holds it
  resp,       \* what the last handler returned; for POST /api/thresholds also the
              \* payload it got and the profile and file it found
  module_defaults, \* thresholds.DEFAULT_THRESHOLDS, the dict object in memory
  detect,     \* the detect_thresholds calls made in a row: how many, the arguments and
              \* the result of the last, whether an earlier one matched a table entry
  clock,      \* time.time(), in milliseconds since the process started
  rl,         \* _rl: client address -> the time stamps of its admitted requests
  reqs,       \* the request threads between before_request and the answer
  admitted,   \* every time stamp _rate_limited has appended, per address, with how often
  answers,    \* per address, the requests that arrived and the status codes answered
  fan,        \* _active_fan_preset and profiles/fan_curve.json
  bench,      \* _bench_status, the _run_benchmark threads alive, logs/benchmarks.jsonl
  log,        \* _log_buffer, _log_ts, the session log file, the flushes under way
  fb,         \* _fb_rl, _fb_dedup, and per key the stamps of the submissions let through
  ci,         \* scripts/bugwatcher.py: the CI watcher, its git commands and logs/ci_watcher.jsonl
  bugs,       \* logs/feedback/bug.jsonl, logs/bugs/escalated.jsonl and the local bug poll
  launcher    \* launch.py: the watch_for_shutdown thread

vars ==
  <<pc, sysinfo, thresh, file, io, sustained, net_base, calls, pushed, boot,
    threads, state_lock, resp, module_defaults, detect,
    clock, rl, reqs, admitted, answers, fan, bench, log, fb, ci, bugs, launcher>>

\* the state outside the threshold engine and the statistics path
gate == <<clock, rl, reqs, admitted, answers>>
forge == <<fan, bench>>
\* the processes beside the server
beside == <<ci, bugs, launcher>>
services == <<module_defaults, detect, gate, forge, log, fb, beside>>

\* request threads that may run at once (app.run(threaded=True) sets no limit)
Threads == 1..MaxThreads

\* a thread that is not inside _live_stats
IdleThread == [at |-> "idle"]

Idle == [op |-> "idle"]
NoResp == [op |-> "none"]
InProgress == [op |-> "in_progress"]

\* no detect_thresholds call made yet
NoDetect == [calls |-> 0]

\* a request thread with no request to serve
IdleReq == [at |-> "idle"]

\* a dict with no key
EmptyDict == [k \in {} |-> <<>>]

\* nothing arrived, nothing answered
NoTraffic == [arrived |-> 0, status |-> <<>>]

\* lines 129-153: no fan_curve.json, so the preset is 'BALANCED'
FreshFan == [active |-> "BALANCED", file |-> "none"]

\* line 158, no worker thread, no benchmarks.jsonl
FreshBench ==
  [running |-> FALSE, step |-> "None", result |-> "None", workers |-> <<>>, started |-> 0,
   saved |-> 0]

\* line 188, an empty session log, no flush under way
\* appended: entries appended so far; failed: a flush met an I/O error; final, upto:
\* how the flush of api_shutdown ended and how many entries had been appended before it
FreshLog ==
  [buffer |-> <<>>, ts |-> 0, file |-> <<>>, appended |-> 0, failed |-> FALSE,
   final |-> "none", upto |-> 0]

\* line 45: no feedback yet
FreshFeedback == [rl |-> EmptyDict, dedup |-> EmptyDict, passed |-> EmptyDict]

\* scripts/bugwatcher.py before main: no token read, nothing seen, no git command run
FreshCi ==
  [at |-> "off", token |-> FALSE, wait |-> FALSE, seen_run_ids |-> {}, failures |-> <<>>,
   processed |-> <<>>, patched |-> {}, git |-> <<>>, log |-> <<>>, handled |-> EmptyDict]

\* no bug reported, and the bug poll before its first cycle
FreshBugs ==
  [at |-> "idle", file |-> <<>>, escalated |-> <<>>, seen_ids |-> {}, todo |-> <<>>,
   fixed |-> <<>>, escalated_ids |-> <<>>, cycles |-> 0, due |-> {}, handled |-> <<>>]

\* launch.py line 66
FreshLauncher == [consecutive_failures |-> 0, exited |-> FALSE, polls |-> <<>>]

\* line 22 and the server before its first request
FreshGate ==
  /\ clock = 0
  /\ rl = EmptyDict
  /\ reqs = [th \in Threads |-> IdleReq]
  /\ admitted = EmptyDict
  /\ answers = EmptyDict

\* module-level initialisation of server.py and thresholds.py
FreshMemory ==
  /\ thresh = None
  /\ io = Idle
  /\ sustained = [cpu |-> <<>>, gpu |-> <<>>]
  /\ net_base = <<>>
  /\ calls = 0
  /\ pushed = [cpu |-> <<>>, gpu |-> <<>>, net |-> <<>>]
  /\ threads = [th \in Threads |-> IdleThread]
  /\ state_lock = 0
  /\ resp = NoResp
  /\ module_defaults = DEFAULT_THRESHOLDS
  /\ detect = NoDetect
  /\ FreshGate
  /\ fan = FreshFan
  /\ bench = FreshBench
  /\ log = FreshLog
  /\ fb = FreshFeedback

\* the process is not running; Files are the profile files it may find, Hw the machines
InitWith(Files, Hw) ==
  /\ pc = "down"
  /\ sysinfo \in Hw
  /\ file \in Files
  /\ boot = "none"
  /\ FreshMemory
  /\ ci = FreshCi
  /\ bugs = FreshBugs
  /\ launcher = FreshLauncher

(***************************************************************************)
(* The steps.                                                              *)
(***************************************************************************)
\* lines 838-840: try: _thresh = load_thresholds(...)  except: log
StartLoad ==
  /\ UNCHANGED <<threads, state_lock, services>>
  /\ pc = "down"
  /\ LET r == load_thresholds(file, sysinfo.cpu_name, sysinfo.gpu_name)
     IN  /\ boot' = file.kind
         /\ IF r.saves
              THEN /\ file' = save_open(file)
                   /\ io' = [op |-> "writing", data |-> r.value, prev |-> file, by |-> "load"]
                   /\ pc' = "boot_saving"
                   /\ UNCHANGED thresh
              ELSE /\ thresh' = IF r.exc = "" THEN r.value ELSE thresh
                   /\ pc' = "warm"
                   /\ UNCHANGED <<file, io>>
  /\ UNCHANGED <<sysinfo, sustained, net_base, calls, pushed, resp>>

\* save_thresholds completes: json.dump and close; its caller goes on
SaveWrite ==
  /\ UNCHANGED <<threads, state_lock, services>>
  /\ io.op = "writing"
  /\ file' = save_write(io.data)
  /\ io' = Idle
  /\ IF io.by = "load"
       THEN thresh' = io.data /\ pc' = "warm" /\ UNCHANGED resp
       ELSE /\ UNCHANGED <<thresh, pc>>
            /\ resp' = IF io.by = "thresholds_post"
                         THEN [op |-> io.by, status |-> 200, payload |-> io.payload,
                               before |-> io.before, file_before |-> io.prev]
                         ELSE [op |-> io.by, status |-> 200, before |-> io.before]
  /\ UNCHANGED <<sysinfo, sustained, net_base, calls, pushed, boot>>

\* one _live_stats call on sample s: _warnings, and what its caller sees
DoStats(s) ==
  LET r == _warnings(thresh, s, sustained, net_base)
  IN  /\ sustained' = r.sustained
      /\ net_base' = r.net_base
      /\ calls' = calls + 1
      /\ pushed' = [cpu |-> IF r.appended THEN Append(pushed.cpu, s.cpu.usage)
                                             ELSE pushed.cpu,
                     gpu |-> IF r.appended /\ s.gpu.usage # <<>>
                               THEN Append(pushed.gpu, s.gpu.usage[1]) ELSE pushed.gpu,
                     net |-> IF r.net_appended THEN Append(pushed.net, s.network.download_kbps)
                                                 ELSE pushed.net]
      /\ resp' = [op |-> "stats", sample |-> s, exc |-> r.exc, warnings |-> r.w]

\* line 845: the start-up call  _init = _live_stats()  inside try/except
WarmUp(S) ==
  /\ UNCHANGED <<threads, state_lock, services>>
  /\ pc = "warm"
  /\ \E s \in S : DoStats(s)
  /\ pc' = "up"
  /\ UNCHANGED <<sysinfo, thresh, file, io, boot>>

\* GET /api/stats: api_stats -> _live_stats -> _warnings; an exception becomes a 500
Evaluate(S, bound) ==
  /\ UNCHANGED <<threads, state_lock, services>>
  /\ pc = "up"
  /\ io = Idle
  /\ calls < bound
  /\ \E s \in S : DoStats(s)
  /\ UNCHANGED <<pc, sysinfo, thresh, file, io, boot>>

\* faulty variant, for sensitivity: each section is validated and merged in turn, so
\* the sections that pass are merged before the request fails on one that does not
UpdateMergesFirst(P) ==
  /\ UNCHANGED <<threads, state_lock, services>>
  /\ pc = "up"
  /\ io = Idle
  /\ \E d \in P :
       IF DOMAIN d = {}
         THEN /\ resp' = [op |-> "thresholds_post", status |-> 400, error |-> "No data",
                          payload |-> d, before |-> thresh, file_before |-> file]
              /\ UNCHANGED <<thresh, file, io>>
       ELSE IF ~_validate(d)
         THEN /\ resp' = [op |-> "thresholds_post", status |-> 400, error |-> "invalid",
                          payload |-> d, before |-> thresh, file_before |-> file]
              /\ thresh' = IF thresh = None THEN thresh
                           ELSE merge(thresh,
                                      [sec \in {x \in DOMAIN d :
                                                  _validate([y \in {x} |-> d[x]])} |-> d[sec]])
              /\ UNCHANGED <<file, io>>
       ELSE IF thresh = None /\ merged_sections(d) # {}
         THEN /\ resp' = [op |-> "thresholds_post", status |-> 500, error |-> "TypeError",
                          payload |-> d, before |-> thresh, file_before |-> file]
              /\ UNCHANGED <<thresh, file, io>>
       ELSE /\ thresh' = merge(thresh, d)
            /\ file' = save_open(file)
            /\ io' = [op |-> "writing", data |-> thresh', prev |-> file,
                      by |-> "thresholds_post", payload |-> d, before |-> thresh]
            /\ resp' = InProgress
  /\ UNCHANGED <<pc, sysinfo, sustained, net_base, calls, pushed, boot>>

\* api_thresholds_post on a payload d of P: lines 879-887
api_thresholds_post(P) ==
  /\ pc = "up"
  /\ io = Idle
  /\ \E d \in P :
       IF DOMAIN d = {}
         THEN /\ resp' = [op |-> "thresholds_post", status |-> 400, error |-> "No data",
                          payload |-> d, before |-> thresh, file_before |-> file]
              /\ UNCHANGED <<thresh, file, io>>
       ELSE IF ~_validate(d)
         THEN /\ resp' = [op |-> "thresholds_post", status |-> 400, error |-> "invalid",
                          payload |-> d, before |-> thresh, file_before |-> file]
              /\ UNCHANGED <<thresh, file, io>>
       ELSE IF thresh = None /\ merged_sections(d) # {}
         THEN \* _thresh[k] on None: TypeError, answered 500 by Flask; with no
              \* section to merge the loop never touches _thresh and None is saved
              /\ resp' = [op |-> "thresholds_post", status |-> 500, error |-> "TypeError",
                          payload |-> d, before |-> thresh, file_before |-> file]
              /\ UNCHANGED <<thresh, file, io>>
       ELSE /\ thresh' = merge(thresh, d)
            /\ file' = save_open(file)
            /\ io' = [op |-> "writing", data |-> thresh', prev |-> file,
                      by |-> "thresholds_post", payload |-> d, before |-> thresh]
            /\ resp' = InProgress
  /\ UNCHANGED <<pc, sysinfo, sustained, net_base, calls, pushed, boot>>

\* POST /api/thresholds from the local machine, whose request the guard lets through
\* without touching any state (line 40)
Update(P) ==
  /\ UNCHANGED <<threads, state_lock, services>>
  /\ api_thresholds_post(P)

\* faulty variant, for sensitivity: the detected defaults only fill what the current
\* profile lacks
ResetKeepsCustom ==
  /\ UNCHANGED <<threads, state_lock, services>>
  /\ pc = "up"
  /\ io = Idle
  /\ thresh' = IF thresh = None THEN detected(sysinfo.cpu_name, sysinfo.gpu_name)
               ELSE Backfill(thresh, detected(sysinfo.cpu_name, sysinfo.gpu_name))
  /\ file' = save_open(file)
  /\ io' = [op |-> "writing", data |-> thresh', prev |-> file, by |-> "thresholds_reset",
            before |-> thresh]
  /\ resp' = InProgress
  /\ UNCHANGED <<pc, sysinfo, sustained, net_base, calls, pushed, boot>>

\* api_thresholds_reset: lines 891-893
api_thresholds_reset ==
  /\ pc = "up"
  /\ io = Idle
  /\ thresh' = detected(sysinfo.cpu_name, sysinfo.gpu_name)
  /\ file' = save_open(file)
  /\ io' = [op |-> "writing", data |-> thresh', prev |-> file, by |-> "thresholds_reset",
            before |-> thresh]
  /\ resp' = InProgress
  /\ UNCHANGED <<pc, sysinfo, sustained, net_base, calls, pushed, boot>>

\* POST /api/thresholds/reset from the local machine
Reset ==
  /\ UNCHANGED <<threads, state_lock, services>>
  /\ api_thresholds_reset

\* the process dies (kill, power loss); only the file survives
Crash ==
  /\ pc # "down"
  /\ pc' = "down"
  /\ thresh' = None
  /\ io' = Idle
  /\ sustained' = [cpu |-> <<>>, gpu |-> <<>>]
  /\ net_base' = <<>>
  /\ calls' = 0
  /\ pushed' = [cpu |-> <<>>, gpu |-> <<>>, net |-> <<>>]
  /\ threads' = [th \in Threads |-> IdleThread]
  /\ state_lock' = 0
  /\ resp' = NoResp
  /\ module_defaults' = DEFAULT_THRESHOLDS
  /\ detect' = NoDetect
  /\ rl' = EmptyDict
  /\ reqs' = [th \in Threads |-> IdleReq]
  /\ fan' = [fan EXCEPT !.active = IF fan.file \in {"none", "truncated"}
                                      THEN "BALANCED" ELSE fan.file]
  /\ bench' = [FreshBench EXCEPT !.saved = bench.saved]
  /\ log' = [FreshLog EXCEPT !.file = log.file]
  /\ fb' = FreshFeedback
  /\ UNCHANGED <<sysinfo, file, boot, clock, admitted, answers, beside>>

(***************************************************************************)
(* GET /api/stats served by concurrent request threads: _warnings in the   *)
(* steps between which another thread can run.  The instantaneous rules    *)
(* touch no shared state and are one step with the entry.                  *)
(***************************************************************************)
\* what a thread returns to api_stats
Returns(th, s, exc, w, cs, view) ==
  /\ threads' = [threads EXCEPT ![th] = IdleThread]
  /\ resp' = [op |-> "stats", sample |-> s, exc |-> exc, warnings |-> w,
              thread |-> th, cs |-> cs, net_view |-> view]

\* the dict a thread's local t names: the one _thresh names (<<>>), or the one it
\* named when the thread read it, if a reset has bound _thresh to a new dict since
local_t(l) == IF l.t = <<>> THEN thresh ELSE l.t[1]

\* lines 720-737: t = _thresh, the instantaneous rules, sn
Call(th, S, bound) ==
  /\ pc = "up"
  /\ io = Idle
  /\ calls < bound
  /\ threads[th].at = "idle"
  /\ calls' = calls + 1
  /\ \E s \in S :
       IF Falsy(thresh) THEN Returns(th, s, "", <<>>, <<>>, <<>>)
       ELSE LET inst == Then(Then(Then(Then(CpuTempRule(thresh, s.cpu.temp),
                                            GpuTempRule(thresh, s.gpu.temp)),
                                       VoltageRule(thresh, s.cpu.voltage)),
                                  RamRule(thresh, s.ram.usage_percent)),
                             SustainCountRule(thresh))
            IN  IF inst.exc # "" THEN Returns(th, s, inst.exc, <<>>, <<>>, <<>>)
                ELSE /\ threads' = [threads EXCEPT ![th] =
                                      [at |-> "lock", s |-> s, w |-> inst.w, t |-> <<>>,
                                       sn |-> SustainCount(thresh), during |-> {thresh}]]
                     /\ UNCHANGED resp
  /\ UNCHANGED <<pc, sysinfo, thresh, file, io, sustained, net_base, pushed, boot, state_lock,
                 services>>

\* line 738: with _state_lock  -- entry
Acquire(th) ==
  /\ threads[th].at = "lock"
  /\ state_lock = 0
  /\ state_lock' = th
  /\ threads' = [threads EXCEPT ![th].at = "in_lock"]
  /\ UNCHANGED <<pc, sysinfo, thresh, file, io, sustained, net_base, calls, pushed, boot, resp,
                 services>>

\* lines 739-741 and the exit of the with block: the appends to _sustained and the
\* copies cs and gs, all while holding _state_lock
LockedAppend(th) ==
  /\ threads[th].at = "in_lock"
  /\ state_lock = th
  /\ LET s  == threads[th].s
         cs == deque_append(sustained.cpu, s.cpu.usage, SUSTAINED_MAXLEN)
         gq == IF s.gpu.usage # <<>>
                 THEN deque_append(sustained.gpu, s.gpu.usage[1], SUSTAINED_MAXLEN)
                 ELSE sustained.gpu
     IN  /\ sustained' = [cpu |-> cs, gpu |-> gq]
         /\ pushed' = [pushed EXCEPT !.cpu = Append(@, s.cpu.usage),
                                     !.gpu = IF s.gpu.usage # <<>>
                                               THEN Append(@, s.gpu.usage[1]) ELSE @]
         /\ threads' = [threads EXCEPT ![th] =
                          [at |-> "net_append", s |-> s, w |-> threads[th].w, cs |-> cs,
                           gs |-> IF s.gpu.usage # <<>> THEN gq ELSE <<>>,
                           t |-> threads[th].t, sn |-> threads[th].sn,
                           during |-> threads[th].during]]
  /\ state_lock' = 0
  /\ UNCHANGED <<pc, sysinfo, thresh, file, io, net_base, calls, boot, resp, services>>

\* lines 742-750: the sustained rules on the copies, then _net_base.append(dn),
\* which holds no lock
NetAppend(th) ==
  /\ threads[th].at = "net_append"
  /\ LET l    == threads[th]
         sust == Then(Then(Ok(l.w), CpuSustainOn(local_t(l), l.cs, l.sn)),
                      GpuSustainOn(local_t(l), l.gs, l.sn))
     IN  IF sust.exc # ""
           THEN /\ Returns(th, l.s, sust.exc, <<>>, l.cs, <<>>)
                /\ UNCHANGED <<net_base, pushed>>
           ELSE /\ net_base' = deque_append(net_base, l.s.network.download_kbps,
                                            NET_BASE_MAXLEN)
                /\ pushed' = [pushed EXCEPT !.net = Append(@, l.s.network.download_kbps)]
                /\ threads' = [threads EXCEPT ![th] =
                                 [at |-> "net_check", s |-> l.s, w |-> sust.w, cs |-> l.cs,
                                  gs |-> l.gs, t |-> l.t, during |-> l.during]]
                /\ UNCHANGED resp
  /\ UNCHANGED <<pc, sysinfo, thresh, file, io, sustained, calls, boot, state_lock,
                 services>>

\* lines 751-756: the reads of _net_base, which hold no lock, and the return
NetCheck(th) ==
  /\ threads[th].at = "net_check"
  /\ LET l   == threads[th]
         all == Then(Ok(l.w), NetworkRule(local_t(l), net_base, l.s.network))
     IN  Returns(th, l.s, all.exc, all.w, l.cs, net_base)
  /\ UNCHANGED <<pc, sysinfo, thresh, file, io, sustained, net_base, calls, pushed, boot,
                 state_lock, services>>

(***************************************************************************)
(* POST /api/thresholds and /api/thresholds/reset while request threads    *)
(* are inside _warnings.  The update changes the dict that _thresh names   *)
(* in place (line 885), the dict every thread's local t names too; the     *)
(* reset binds _thresh to a new dict (line 892) and leaves the old one to  *)
(* the threads that hold it.                                               *)
(***************************************************************************)
\* the threads inside _warnings note the profile _thresh holds from now on
Noting(p, rebound) ==
  [th \in DOMAIN threads |->
     IF "during" \notin DOMAIN threads[th] THEN threads[th]
     ELSE [threads[th] EXCEPT !.during = @ \cup {p},
                              !.t = IF rebound /\ @ = <<>> THEN <<thresh>> ELSE @]]

\* lines 877-887 with evaluations in flight
UpdateDuring(P) ==
  /\ api_thresholds_post(P)
  /\ threads' = Noting(thresh', FALSE)
  /\ UNCHANGED <<state_lock, services>>

\* lines 889-893 with evaluations in flight
ResetDuring ==
  /\ api_thresholds_reset
  /\ threads' = Noting(thresh', TRUE)
  /\ UNCHANGED <<state_lock, services>>

(***************************************************************************)
(* Spec: the life cycle with the instantaneous rules exercised.            *)
(***************************************************************************)
Machines ==
  { [cpu_name |-> "AMD Ryzen 9 7950X", gpu_name |-> "NVIDIA GeForce RTX 3080"],
    [cpu_name |-> "",                  gpu_name |-> ""] }

\* a profile saved by an earlier run under an older schema: no network section,
\* no usage_sustain_sec, a customised cpu temp_warn
OldProfile ==
  [cpu     |-> [temp_warn |-> 70, temp_crit |-> 90, volt_min |-> 90, volt_max |-> 145,
                usage_warn |-> 85, usage_crit |-> 95],
   gpu     |-> [temp_warn |-> 80, temp_crit |-> 95, usage_warn |-> 90, usage_crit |-> 98,
                usage_sustain_sec |-> 30],
   ram     |-> [usage_warn |-> 80, usage_crit |-> 92],
   voltage |-> [cpu_min |-> 90, cpu_max |-> 145]]

SpecFiles == {Missing, Corrupt, Stored(OldProfile)}

\* every combination of the instantaneous readings with a GPU usage reading, the
\* download speed varied with no GPU usage reading, the voltage varied alone
\* (0 V, within the limits, above them), and a hot CPU on an otherwise quiet machine
SpecSamples ==
  Samples({<<>>, <<0>>, <<95>>}, {<<>>, <<96>>}, {<<>>, <<80>>}, {30, 94},
          {96}, {<<99>>}, {50})
  \cup Samples({<<>>, <<95>>}, {<<>>}, {<<>>}, {30}, {96}, {<<>>}, {0, 20, 50})
  \cup Samples({<<>>}, {<<>>}, {<<0>>, <<120>>, <<150>>}, {30}, {96}, {<<>>}, {50})
  \cup Samples({<<95>>}, {<<40>>}, {<<>>}, {30}, {10}, {<<5>>}, {50})

SpecPayloads ==
  { [cpu |-> [temp_crit |-> 0, usage_sustain_sec |-> 5]],
    [network |-> [baseline_samples |-> 0]],
    [network |-> [baseline_samples |-> 2, spike_multiplier |-> 1]],
    [ram |-> [usage_warn |-> 10001]],
    [x \in {} |-> 0] }

Init == InitWith(SpecFiles, Machines)

Next ==
  \/ StartLoad
  \/ SaveWrite
  \/ WarmUp(SpecSamples)
  \/ Evaluate(SpecSamples, MaxCalls)
  \/ Update(SpecPayloads)
  \/ Reset
  \/ Crash

Spec == Init /\ [][Next]_vars
(***************************************************************************)
(* SpecSustain: long runs of CPU usage readings under profiles with        *)
(* different usage_sustain_sec, as a start-up finds them on disk.          *)
(***************************************************************************)
Generic == detected("", "")

\* the generic profile as a user saved it with another cpu usage_sustain_sec
WithSustain(sec) == [Generic EXCEPT !.cpu.usage_sustain_sec = sec]

SustainFiles == {Missing, Stored(WithSustain(60)), Stored(WithSustain(65))}

\* how many entries of q are below x
RECURSIVE CountBelow(_, _)
CountBelow(q, x) ==
  IF q = <<>> THEN 0 ELSE (IF q[1] < x THEN 1 ELSE 0) + CountBelow(Tail(q), x)

SustainSamples ==
  Samples({<<>>}, {<<>>}, {<<>>}, {30},
          {96} \cup (IF CountBelow(pushed.cpu, 96) < MaxLows THEN {50} ELSE {}),
          {<<>>}, {50})

InitSustain == InitWith(SustainFiles, {[cpu_name |-> "", gpu_name |-> ""]})

NextSustain ==
  \/ StartLoad
  \/ SaveWrite
  \/ WarmUp(SustainSamples)
  \/ Evaluate(SustainSamples, MaxSustainCalls)
  \/ Crash

SpecSustain == InitSustain /\ [][NextSustain]_vars

(***************************************************************************)
(* SpecNet: long runs of download readings under profiles with different   *)
(* network.baseline_samples, as a start-up finds them on disk.             *)
(***************************************************************************)
WithBaseline(n) == [Generic EXCEPT !.network.baseline_samples = n]

NetFiles == {Missing, Stored(WithBaseline(3)), Stored(WithBaseline(37))}

\* how many entries of q are above x
RECURSIVE CountAbove(_, _)
CountAbove(q, x) ==
  IF q = <<>> THEN 0 ELSE (IF q[1] > x THEN 1 ELSE 0) + CountAbove(Tail(q), x)

NetSamples ==
  Samples({<<>>}, {<<>>}, {<<>>}, {30}, {10}, {<<>>},
          {20} \cup (IF CountAbove(pushed.net, 20) < MaxBursts THEN {2000} ELSE {}))

InitNet == InitWith(NetFiles, {[cpu_name |-> "", gpu_name |-> ""]})

NextNet ==
  \/ StartLoad
  \/ SaveWrite
  \/ WarmUp(NetSamples)
  \/ Evaluate(NetSamples, MaxNetCalls)
  \/ Crash

SpecNet == InitNet /\ [][NextNet]_vars

(***************************************************************************)
(* SpecUpdate: POST /api/thresholds with payloads of every shape that      *)
(* _validate tells apart, resets, and restarts on the file they leave.     *)
(***************************************************************************)
\* 21 keys, one more than _validate lets a dict have
ManyKeys ==
  {"k01", "k02", "k03", "k04", "k05", "k06", "k07", "k08", "k09", "k10", "k11",
   "k12", "k13", "k14", "k15", "k16", "k17", "k18", "k19", "k20", "k21"}

UpdatePayloads ==
  { \* accepted by _validate
    [cpu |-> [temp_warn |-> 79]],
    [cpu |-> [temp_warn |-> 60, my_key |-> 1]],
    [ram |-> [usage_warn |-> PY_STR]],
    [gpu |-> [temp_warn |-> PY_NULL, temp_crit |-> PY_TRUE, usage_warn |-> PY_DICT]],
    [fan |-> [speed |-> 50]],
    [ram |-> [usage_crit |-> 99], fan |-> [speed |-> 50]],
    [cpu |-> [py_scalar |-> 5]],
    \* rejected by _validate
    [cpu |-> [temp_warn |-> 61], ram |-> [usage_warn |-> 10001]],
    [ram |-> [usage_crit |-> 0 - 1]],
    [ram |-> [usage_crit |-> PY_LONG_STR]],
    [ram |-> [usage_crit |-> PY_LIST]],
    [ram |-> [usage_crit |-> PY_DEEP_DICT]],
    [cpu |-> [k \in ManyKeys |-> 1]],
    \* rejected before _validate: if not d
    [x \in {} |-> 0] }

UpdateSamples ==
  Samples({<<>>, <<95>>}, {<<>>}, {<<>>}, {30}, {96}, {<<>>}, {50})

InitUpdate ==
  InitWith({Missing, Stored(OldProfile)},
           {[cpu_name |-> "AMD Ryzen 9 7950X", gpu_name |-> "NVIDIA GeForce RTX 3080"]})

NextUpdate ==
  \/ StartLoad
  \/ SaveWrite
  \/ WarmUp(UpdateSamples)
  \/ Evaluate(UpdateSamples, MaxUpdateCalls)
  \/ Update(UpdatePayloads)
  \/ Reset
  \/ Crash

SpecUpdate == InitUpdate /\ [][NextUpdate]_vars

(***************************************************************************)
(* SpecThreads: GET /api/stats requests served by concurrent threads.      *)
(***************************************************************************)
\* the download reading tells the calls apart
ThreadSamples ==
  Samples({<<>>}, {<<>>}, {<<>>}, {30}, {96, 97}, {<<>>, <<99>>}, {20, 50})

InitThreads == InitWith({Missing}, {[cpu_name |-> "", gpu_name |-> ""]})

NextThreads ==
  \/ StartLoad
  \/ SaveWrite
  \/ WarmUp(ThreadSamples)
  \/ \E th \in Threads :
       \/ Call(th, ThreadSamples, MaxThreadCalls)
       \/ Acquire(th)
       \/ LockedAppend(th)
       \/ NetAppend(th)
       \/ NetCheck(th)
  \/ Crash

SpecThreads == InitThreads /\ [][NextThreads]_vars

(***************************************************************************)
(* The request guard: _rate_limited and _guard, run by Flask before every  *)
(* request, and api_stats, which calls _guard once more.                   *)
(***************************************************************************)
\* line 23, in milliseconds
RL_WIN == 1000
RL_MAX == 10
\* line 31: the size of _rl above which stale addresses are dropped
RL_SWEEP == 500

\* line 40
LOCALHOST == {"127.0.0.1", "::1"}

\* _rl.get(ip, [])
rl_get(bk, ip) == IF ip \in DOMAIN bk THEN bk[ip] ELSE <<>>

\* lines 27-35, the block under _rl_lock, for the value now that line 26 read
\* limited: the return value; rl: _rl when the lock is released
_rate_limited(bk, ip, now) ==
  LET InWindow(t) == now - t < RL_WIN
      w    == SelectSeq(rl_get(bk, ip), InWindow)
      put  == [k \in DOMAIN bk \cup {ip} |-> IF k = ip THEN Append(w, now) ELSE bk[k]]
      cut  == now - RL_WIN
      dead == {k \in DOMAIN put : ~\E i \in 1..Len(put[k]) : put[k][i] >= cut}
  IN  IF Len(w) >= RL_MAX THEN [limited |-> TRUE, rl |-> bk]
      ELSE [limited |-> FALSE,
            rl |-> IF Cardinality(DOMAIN put) > RL_SWEEP
                     THEN [k \in DOMAIN put \ dead |-> put[k]]
                     ELSE put]

\* faulty variant, for sensitivity: the method is not looked at
guard_answerAnyMethod(limited, method) ==
  IF limited THEN 429 ELSE 0

\* lines 41-42: what _guard returns once _rate_limited has; 0 stands for None
guard_answer(limited, method) ==
  IF limited THEN 429
  ELSE IF method = "POST" THEN 403
  ELSE 0

\* a request without a JSON body
NoData == [none |-> TRUE]

\* the count of stamp t in the bag b
Count(b, t) == IF t \in DOMAIN b THEN b[t] ELSE 0

\* the bag b with one more t
Plus(b, t) == [u \in DOMAIN b \cup {t} |-> IF u = t THEN Count(b, t) + 1 ELSE b[u]]

\* the history of address ip
traffic(ip) == IF ip \in DOMAIN answers THEN answers[ip] ELSE NoTraffic

Arrived(ip) ==
  [k \in DOMAIN answers \cup {ip} |->
     IF k = ip THEN [traffic(ip) EXCEPT !.arrived = @ + 1] ELSE answers[k]]

Answered(ip, status) ==
  [k \in DOMAIN answers \cup {ip} |->
     IF k = ip THEN [traffic(ip) EXCEPT !.status = Append(@, status)] ELSE answers[k]]

\* requests that arrived from the addresses of Ips
Arrivals(Ips) ==
  LET RECURSIVE Total(_)
      Total(S) == IF S = {} THEN 0
                  ELSE LET k == CHOOSE x \in S : TRUE
                       IN  answers[k].arrived + Total(S \ {k})
  IN  Total(DOMAIN answers \cap Ips)

\* a request r arrives and Flask runs before_request: lines 38-40, and for any other
\* address line 26 of _rate_limited, the clock read, which holds no lock
Arrive(th, R, bound) ==
  /\ pc = "up"
  /\ reqs[th].at = "idle"
  /\ Arrivals({r.ip : r \in R}) < bound
  /\ \E r \in R :
       /\ reqs' = [reqs EXCEPT ![th] =
                     IF r.ip \in LOCALHOST
                       THEN [at |-> "view", ip |-> r.ip, method |-> r.method,
                             route |-> r.route, data |-> r.data]
                       ELSE [at |-> "rl", ip |-> r.ip, method |-> r.method,
                             route |-> r.route, data |-> r.data, pass |-> 1,
                             now |-> clock]]
       /\ answers' = Arrived(r.ip)
  /\ UNCHANGED <<pc, sysinfo, thresh, file, io, sustained, net_base, calls, pushed, boot,
                 threads, state_lock, resp, module_defaults, detect, forge, log, fb, beside, clock, rl, admitted>>

\* lines 27-35 under _rl_lock, then lines 41-42 (before_request, pass 1) or line 870
\* (the call api_stats makes, pass 2): 429, 403, or on to the view
Limit(th) ==
  /\ reqs[th].at = "rl"
  /\ LET q   == reqs[th]
         out == _rate_limited(rl, q.ip, q.now)
         g   == guard_answer(out.limited, q.method)
     IN  /\ rl' = out.rl
         /\ admitted' = IF out.limited THEN admitted
                        ELSE [k \in DOMAIN admitted \cup {q.ip} |->
                                IF k = q.ip
                                  THEN Plus(IF k \in DOMAIN admitted THEN admitted[k]
                                            ELSE EmptyDict, q.now)
                                  ELSE admitted[k]]
         /\ IF g # 0
              THEN /\ reqs' = [reqs EXCEPT ![th] = IdleReq]
                   /\ answers' = Answered(q.ip, g)
              ELSE /\ reqs' = [reqs EXCEPT ![th] =
                                 [at |-> IF q.pass = 1 THEN "view" ELSE "body",
                                  ip |-> q.ip, method |-> q.method, route |-> q.route,
                                  data |-> q.data]]
                   /\ UNCHANGED answers
  /\ UNCHANGED <<pc, sysinfo, thresh, file, io, sustained, net_base, calls, pushed, boot,
                 threads, state_lock, resp, module_defaults, detect, forge, log, fb, beside, clock>>

\* lines 869-870: api_stats starts with its own call of _guard: lines 38-40 and, for
\* an address that is not the local one, the clock read of line 26 again
StatsView(th) ==
  /\ reqs[th].at = "view"
  /\ reqs[th].route = "/api/stats"
  /\ reqs' = [reqs EXCEPT ![th] =
                IF reqs[th].ip \in LOCALHOST
                  THEN [reqs[th] EXCEPT !.at = "body"]
                  ELSE [at |-> "rl", ip |-> reqs[th].ip, method |-> reqs[th].method,
                        route |-> reqs[th].route, data |-> reqs[th].data, pass |-> 2,
                        now |-> clock]]
  /\ UNCHANGED <<pc, sysinfo, thresh, file, io, sustained, net_base, calls, pushed, boot,
                 threads, state_lock, resp, module_defaults, detect, forge, log, fb, beside, clock, rl, admitted,
                 answers>>

\* lines 871-872: _live_stats; when it raised the answer is 500, else _log_stats is next
StatsBody(th, S) ==
  /\ reqs[th].at = "body"
  /\ io = Idle
  /\ \E s \in S : DoStats(s)
  /\ IF resp'.exc = ""
       THEN reqs' = [reqs EXCEPT ![th].at = "log"] /\ UNCHANGED answers
       ELSE /\ reqs' = [reqs EXCEPT ![th] = IdleReq]
            /\ answers' = Answered(reqs[th].ip, 500)
  /\ UNCHANGED <<pc, sysinfo, thresh, file, io, boot, threads, state_lock,
                 module_defaults, detect, forge, log, fb, beside, clock, rl, admitted>>

\* time passes
Tick ==
  /\ clock < MaxTicks * TickMs
  /\ clock' = clock + TickMs
  /\ UNCHANGED <<pc, sysinfo, thresh, file, io, sustained, net_base, calls, pushed, boot,
                 threads, state_lock, resp, module_defaults, detect, forge, log, fb, beside, rl, reqs, admitted,
                 answers>>

(***************************************************************************)
(* The POST handlers behind the guard.                                     *)
(***************************************************************************)
\* the request of thread th is answered
Answer(th, status) ==
  /\ reqs' = [reqs EXCEPT ![th] = IdleReq]
  /\ answers' = Answered(reqs[th].ip, status)

\* POST /api/thresholds reaches its view: lines 877-886, up to the open of the save;
\* a request answered 400 or 500 ends here
ThresholdsView(th) ==
  /\ reqs[th].at = "view"
  /\ reqs[th].route = "/api/thresholds"
  /\ api_thresholds_post({reqs[th].data})
  /\ IF io' = Idle
       THEN Answer(th, resp'.status)
       ELSE reqs' = [reqs EXCEPT ![th].at = "saving"] /\ UNCHANGED answers
  /\ UNCHANGED <<threads, state_lock, module_defaults, detect, forge, log, fb, beside, clock, rl,
                 admitted>>

\* POST /api/thresholds/reset reaches its view: lines 889-893, up to the open of the save
ResetView(th) ==
  /\ reqs[th].at = "view"
  /\ reqs[th].route = "/api/thresholds/reset"
  /\ api_thresholds_reset
  /\ reqs' = [reqs EXCEPT ![th].at = "saving"]
  /\ UNCHANGED <<threads, state_lock, module_defaults, detect, forge, log, fb, beside, clock, rl,
                 admitted, answers>>

\* lines 887 and 893: save_thresholds has returned and the view answers
Saved(th) ==
  /\ reqs[th].at = "saving"
  /\ io = Idle
  /\ Answer(th, resp.status)
  /\ UNCHANGED <<pc, sysinfo, thresh, file, io, sustained, net_base, calls, pushed, boot,
                 threads, state_lock, resp, module_defaults, detect, forge, log, fb, beside, clock, rl,
                 admitted>>

\* lines 77-82, the keys
FAN_CURVES == {"SILENT", "BALANCED", "PERFORMANCE", "FULL_SEND"}

\* POST /api/forge/fan_curves/select reaches its view: lines 1068-1081; the write of
\* fan_curve.json may fail before or after the file is opened, which is only logged
FanView(th) ==
  /\ reqs[th].at = "view"
  /\ reqs[th].route = "/api/forge/fan_curves/select"
  /\ LET preset == reqs[th].data.preset
     IN  IF preset \notin FAN_CURVES
           THEN Answer(th, 400) /\ UNCHANGED fan
           ELSE /\ \E f \in {preset, "truncated", fan.file} :
                      fan' = [active |-> preset, file |-> f]
                /\ Answer(th, 200)
  /\ UNCHANGED <<pc, sysinfo, thresh, file, io, sustained, net_base, calls, pushed, boot,
                 threads, state_lock, resp, module_defaults, detect, bench, log, fb, beside, clock, rl,
                 admitted>>

\* line 1088
BENCH_MODES == {"quick", "full"}

\* faulty variant, for sensitivity: running is tested under the lock but not set there
BenchViewNoSet(th) ==
  /\ reqs[th].at = "view"
  /\ reqs[th].route = "/api/forge/benchmark"
  /\ IF reqs[th].data.mode \notin BENCH_MODES
       THEN Answer(th, 400) /\ UNCHANGED bench
     ELSE IF bench.running
       THEN Answer(th, 409) /\ UNCHANGED bench
     ELSE /\ reqs' = [reqs EXCEPT ![th].at = "spawn"]
          /\ UNCHANGED <<bench, answers>>
  /\ UNCHANGED <<pc, sysinfo, thresh, file, io, sustained, net_base, calls, pushed, boot,
                 threads, state_lock, resp, module_defaults, detect, fan, log, fb, beside, clock, rl,
                 admitted>>

\* POST /api/forge/benchmark reaches its view: lines 1086-1096, the mode check, then
\* under _bench_lock the test of running and the update that sets it
BenchView(th) ==
  /\ reqs[th].at = "view"
  /\ reqs[th].route = "/api/forge/benchmark"
  /\ IF reqs[th].data.mode \notin BENCH_MODES
       THEN Answer(th, 400) /\ UNCHANGED bench
     ELSE IF bench.running
       THEN Answer(th, 409) /\ UNCHANGED bench
     ELSE /\ bench' = [bench EXCEPT !.running = TRUE, !.step = "Starting...",
                                    !.result = "None"]
          /\ reqs' = [reqs EXCEPT ![th].at = "spawn"]
          /\ UNCHANGED answers
  /\ UNCHANGED <<pc, sysinfo, thresh, file, io, sustained, net_base, calls, pushed, boot,
                 threads, state_lock, resp, module_defaults, detect, fan, log, fb, beside, clock, rl,
                 admitted>>

\* lines 1097-1098: the worker thread is started and the request answered
BenchSpawn(th) ==
  /\ reqs[th].at = "spawn"
  /\ bench' = [bench EXCEPT !.workers = Append(@, [mode |-> reqs[th].data.mode,
                                                   at |-> "start"]),
                            !.started = @ + 1]
  /\ Answer(th, 200)
  /\ UNCHANGED <<pc, sysinfo, thresh, file, io, sustained, net_base, calls, pushed, boot,
                 threads, state_lock, resp, module_defaults, detect, fan, log, fb, beside, clock, rl,
                 admitted>>

\* the sequence w without its element i
Without(w, i) == [j \in 1..(Len(w) - 1) |-> IF j < i THEN w[j] ELSE w[j + 1]]

\* the stage of _run_benchmark that follows stage at in mode mode ("end": none)
next_stage(mode, at) ==
  CASE at = "start" -> "CPU single-thread..."
    [] at = "CPU single-thread..." -> "CPU multi-thread..."
    [] at = "CPU multi-thread..." -> IF mode = "full" THEN "RAM bandwidth..." ELSE "end"
    [] at = "RAM bandwidth..." -> "Disk I/O..."
    [] at = "Disk I/O..." -> "end"

\* _run_benchmark, lines 544-560: _upd(step) under _bench_lock, then the stage runs
WorkerUpd(i) ==
  /\ i \in 1..Len(bench.workers)
  /\ LET w == bench.workers[i]
     IN  /\ next_stage(w.mode, w.at) # "end"
         /\ bench' = [bench EXCEPT !.step = next_stage(w.mode, w.at),
                                   !.workers[i].at = next_stage(w.mode, w.at)]
  /\ UNCHANGED <<pc, sysinfo, thresh, file, io, sustained, net_base, calls, pushed, boot,
                 threads, state_lock, resp, module_defaults, detect, fan, log, fb, beside, gate>>

\* _run_benchmark, lines 562-593: the result is appended to benchmarks.jsonl (a
\* failure is only logged) and stored under _bench_lock, running goes back to False
WorkerDone(i) ==
  /\ i \in 1..Len(bench.workers)
  /\ next_stage(bench.workers[i].mode, bench.workers[i].at) = "end"
  /\ \E written \in {0, 1} :
       bench' = [bench EXCEPT !.running = FALSE, !.step = "None", !.result = "result",
                              !.saved = @ + written,
                              !.workers = Without(@, i)]
  /\ UNCHANGED <<pc, sysinfo, thresh, file, io, sustained, net_base, calls, pushed, boot,
                 threads, state_lock, resp, module_defaults, detect, fan, log, fb, beside, gate>>

\* faulty variant, for sensitivity: the except branch records the error and leaves
\* running as it is
WorkerFailStaysRunning(i) ==
  /\ i \in 1..Len(bench.workers)
  /\ bench' = [bench EXCEPT !.step = "None", !.result = "error",
                            !.workers = Without(@, i)]
  /\ UNCHANGED <<pc, sysinfo, thresh, file, io, sustained, net_base, calls, pushed, boot,
                 threads, state_lock, resp, module_defaults, detect, fan, log, fb, beside, gate>>

\* _run_benchmark, lines 594-598: a stage raised; running goes back to False
WorkerFail(i) ==
  /\ i \in 1..Len(bench.workers)
  /\ bench' = [bench EXCEPT !.running = FALSE, !.step = "None", !.result = "error",
                            !.workers = Without(@, i)]
  /\ UNCHANGED <<pc, sysinfo, thresh, file, io, sustained, net_base, calls, pushed, boot,
                 threads, state_lock, resp, module_defaults, detect, fan, log, fb, beside, gate>>

(***************************************************************************)
(* POST /api/feedback up to its answer: the rate limit and the duplicate   *)
(* check of feedback submissions.  A message is a tuple of characters.     *)
(***************************************************************************)
\* lines 46-47, in milliseconds
FB_RL_WIN == 60000
FB_RL_MAX == 5
FB_DEDUP_WIN == 3600000
\* line 67: if len(_fb_dedup) > 1000
FB_DEDUP_SWEEP == 1000
\* line 938: [:500]
FB_MSG_MAX == 500

\* the characters str.strip() removes
WHITESPACE == {" ", "\n", "\r", "\t"}
\* the character '\x00'
NUL == "NUL"

RECURSIVE lstrip(_)
lstrip(s) == IF s # <<>> /\ s[1] \in WHITESPACE THEN lstrip(Tail(s)) ELSE s

RECURSIVE rstrip(_)
rstrip(s) ==
  IF s # <<>> /\ s[Len(s)] \in WHITESPACE THEN rstrip(SubSeq(s, 1, Len(s) - 1)) ELSE s

\* str.strip()
strip(s) == rstrip(lstrip(s))

\* line 938: str(...)[:500].replace('\n',' ').replace('\r',' ').replace('\x00','')
cleaned(m) ==
  LET cut    == SubSeq(m, 1, IF Len(m) < FB_MSG_MAX THEN Len(m) ELSE FB_MSG_MAX)
      spaced == [i \in 1..Len(cut) |-> IF cut[i] \in {"\n", "\r"} THEN " " ELSE cut[i]]
      IsText(c) == c # NUL
  IN  SelectSeq(spaced, IsText)

\* lines 936-937
FB_CATEGORIES == {"bug", "feature", "performance", "general"}
category(c) == IF c \in FB_CATEGORIES THEN c ELSE "general"

\* faulty variant, for sensitivity: the key is taken from the message as typed
fb_keyAsTyped(cat, msg) == <<cat, msg>>

\* line 60: the md5 digest of f"{cat}:{msg.strip().lower()}", one digest per text
fb_key(cat, msg) == <<cat, lower(strip(msg))>>

\* lines 51-55: _fb_rate_limited(ip) on _fb_rl = bk with now read at line 51
_fb_rate_limited(bk, ip, now) ==
  LET Recent(t) == now - t < FB_RL_WIN
      w == SelectSeq(rl_get(bk, ip), Recent)
  IN  IF Len(w) >= FB_RL_MAX THEN [limited |-> TRUE, rl |-> bk]
      ELSE [limited |-> FALSE,
            rl |-> [k \in DOMAIN bk \cup {ip} |-> IF k = ip THEN Append(w, now) ELSE bk[k]]]

\* faulty variant, for sensitivity: a rejected duplicate restarts the window
_fb_duplicateRestarts(dd, key, now) ==
  [dup |-> key \in DOMAIN dd /\ now - dd[key] < FB_DEDUP_WIN,
   dedup |-> [k \in DOMAIN dd \cup {key} |-> IF k = key THEN now ELSE dd[k]]]

\* lines 62-70: _fb_duplicate(cat, msg) on _fb_dedup = dd with the key of line 60 and
\* now read at line 61
_fb_duplicate(dd, key, now) ==
  IF key \in DOMAIN dd /\ now - dd[key] < FB_DEDUP_WIN
    THEN [dup |-> TRUE, dedup |-> dd]
  ELSE LET stored == [k \in DOMAIN dd \cup {key} |-> IF k = key THEN now ELSE dd[k]]
       IN  [dup |-> FALSE,
            dedup |-> IF Cardinality(DOMAIN stored) > FB_DEDUP_SWEEP
                        THEN [k \in {j \in DOMAIN stored :
                                       ~(stored[j] < now - FB_DEDUP_WIN)} |-> stored[k]]
                        ELSE stored]

\* lines 935-942: the category, the message, 400 on an empty one, then
\* _fb_rate_limited reads the clock
FeedbackView(th) ==
  /\ reqs[th].at = "view"
  /\ reqs[th].route = "/api/feedback"
  /\ LET msg == cleaned(reqs[th].data.message)
     IN  IF strip(msg) = <<>>
           THEN Answer(th, 400)
           ELSE /\ reqs' = [reqs EXCEPT ![th] =
                              [at |-> "fb_rl", ip |-> reqs[th].ip, method |-> reqs[th].method,
                               route |-> reqs[th].route, data |-> reqs[th].data,
                               cat |-> category(reqs[th].data.category), msg |-> msg,
                               now |-> clock]]
                /\ UNCHANGED answers
  /\ UNCHANGED <<pc, sysinfo, thresh, file, io, sustained, net_base, calls, pushed, boot,
                 threads, state_lock, resp, module_defaults, detect, forge, log, fb, beside, clock, rl,
                 admitted>>

\* lines 52-55 under _fb_lock, then lines 942-943: 429, or on to _fb_duplicate
FbLimit(th) ==
  /\ reqs[th].at = "fb_rl"
  /\ LET r == _fb_rate_limited(fb.rl, reqs[th].ip, reqs[th].now)
     IN  IF r.limited
           THEN Answer(th, 429) /\ fb' = [fb EXCEPT !.rl = r.rl]
           ELSE /\ fb' = [fb EXCEPT !.rl = r.rl]
                /\ reqs' = [reqs EXCEPT ![th].at = "fb_now"]
                /\ UNCHANGED answers
  /\ UNCHANGED <<pc, sysinfo, thresh, file, io, sustained, net_base, calls, pushed, boot,
                 threads, state_lock, resp, module_defaults, detect, forge, log, clock, rl,
                 admitted, beside>>

\* lines 60-61: the key, and the clock read outside the lock
FbStamp(th) ==
  /\ reqs[th].at = "fb_now"
  /\ reqs' = [reqs EXCEPT ![th].at = "fb_dup",
                          ![th].now = clock]
  /\ UNCHANGED <<pc, sysinfo, thresh, file, io, sustained, net_base, calls, pushed, boot,
                 threads, state_lock, resp, module_defaults, detect, forge, log, fb, beside, clock, rl,
                 admitted, answers>>

\* lines 62-70 under _fb_lock, then lines 944-945: 429 for a duplicate; else lines
\* 947-974, which touch no shared state: the entry is written to
\* logs/feedback/<cat>.jsonl and the request answered 200 (the write is taken to
\* succeed).  fb.passed keeps the stamp of every submission that got through, per key
FbDuplicate(th) ==
  /\ reqs[th].at = "fb_dup"
  /\ LET key == fb_key(reqs[th].cat, reqs[th].msg)
         r   == _fb_duplicate(fb.dedup, key, reqs[th].now)
     IN  IF r.dup
           THEN Answer(th, 429) /\ fb' = [fb EXCEPT !.dedup = r.dedup]
           ELSE /\ fb' = [fb EXCEPT !.dedup = r.dedup,
                                    !.passed = [k \in DOMAIN @ \cup {key} |->
                                                  IF k = key THEN rl_get(@, key) \o <<reqs[th].now>>
                                                  ELSE @[k]]]
                /\ Answer(th, 200)
  /\ UNCHANGED <<pc, sysinfo, thresh, file, io, sustained, net_base, calls, pushed, boot,
                 threads, state_lock, resp, module_defaults, detect, forge, log, clock, rl,
                 admitted, beside>>

\* half of FB_DEDUP_WIN passes
HalfHour ==
  /\ clock < MaxHalfHours * (FB_DEDUP_WIN \div 2)
  /\ clock' = clock + FB_DEDUP_WIN \div 2
  /\ UNCHANGED <<pc, sysinfo, thresh, file, io, sustained, net_base, calls, pushed, boot,
                 threads, state_lock, resp, module_defaults, detect, forge, log, fb, beside, rl, reqs,
                 admitted, answers>>

(***************************************************************************)
(* The session log: _log_stats, called by api_stats once _live_stats has   *)
(* returned, and _flush_log, called by _log_stats and by api_shutdown.     *)
(***************************************************************************)
\* line 787: seconds between flushes, in milliseconds
LOG_PERIOD == 60000

\* lines 785-788: under _log_lock the entry is appended and the age of the last flush
\* is looked at; the entry is named by its rank among all those appended
LogStats(th) ==
  /\ reqs[th].at = "log"
  /\ log' = [log EXCEPT !.buffer = Append(@, log.appended + 1), !.appended = @ + 1]
  /\ IF clock - log.ts >= LOG_PERIOD
       THEN reqs' = [reqs EXCEPT ![th].at = "flush"] /\ UNCHANGED answers
       ELSE Answer(th, 200)
  /\ UNCHANGED <<pc, sysinfo, thresh, file, io, sustained, net_base, calls, pushed, boot,
                 threads, state_lock, resp, module_defaults, detect, forge, clock, rl,
                 admitted, fb, beside>>

\* lines 994-996: api_shutdown starts with _flush_log()
ShutdownView(th) ==
  /\ reqs[th].at = "view"
  /\ reqs[th].route = "/api/shutdown"
  /\ reqs' = [reqs EXCEPT ![th].at = "flush"]
  /\ UNCHANGED <<pc, sysinfo, thresh, file, io, sustained, net_base, calls, pushed, boot,
                 threads, state_lock, resp, module_defaults, detect, forge, log, fb, beside, clock, rl,
                 admitted, answers>>

\* thread th runs _flush_log for api_shutdown: the last flush of the process
Final(th) == reqs[th].route = "/api/shutdown"

\* lines 792-794 under _log_lock: nothing to do on an empty buffer; else the entries
\* are taken, the buffer emptied and _log_ts set
FlushTake(th) ==
  /\ reqs[th].at = "flush"
  /\ IF log.buffer = <<>>
       THEN /\ log' = IF Final(th) THEN [log EXCEPT !.final = "ok", !.upto = log.appended]
                      ELSE log
            /\ Answer(th, 200)
       ELSE /\ log' = [log EXCEPT !.buffer = <<>>, !.ts = clock,
                                  !.upto = IF Final(th) THEN log.appended ELSE @]
            /\ reqs' = [reqs EXCEPT ![th] = [at |-> "write", ip |-> reqs[th].ip,
                                             method |-> reqs[th].method,
                                             route |-> reqs[th].route,
                                             data |-> reqs[th].data,
                                             es |-> log.buffer]]
            /\ UNCHANGED answers
  /\ UNCHANGED <<pc, sysinfo, thresh, file, io, sustained, net_base, calls, pushed, boot,
                 threads, state_lock, resp, module_defaults, detect, forge, clock, rl,
                 admitted, fb, beside>>

\* lines 795-798, outside the lock: the entries are appended to the session log one by
\* one; an I/O error ends the loop after any number of them and is only printed
FlushWrite(th) ==
  /\ reqs[th].at = "write"
  /\ \E k \in 0..Len(reqs[th].es) :
       log' = [log EXCEPT !.file = @ \o SubSeq(reqs[th].es, 1, k),
                          !.failed = @ \/ k < Len(reqs[th].es),
                          !.final = IF ~Final(th) THEN @
                                    ELSE IF k = Len(reqs[th].es) THEN "ok" ELSE "failed"]
  /\ Answer(th, 200)
  /\ UNCHANGED <<pc, sysinfo, thresh, file, io, sustained, net_base, calls, pushed, boot,
                 threads, state_lock, resp, module_defaults, detect, forge, clock, rl,
                 admitted, fb, beside>>

\* a minute passes
Minute ==
  /\ clock < MaxMinutes * LOG_PERIOD
  /\ clock' = clock + LOG_PERIOD
  /\ UNCHANGED <<pc, sysinfo, thresh, file, io, sustained, net_base, calls, pushed, boot,
                 threads, state_lock, resp, module_defaults, detect, forge, log, fb, beside, rl, reqs,
                 admitted, answers>>

(***************************************************************************)
(* SpecRate: GET /api/stats requests of one remote and one local client,   *)
(* served by concurrent threads while time passes.                         *)
(***************************************************************************)
RateThreads == 1..MaxRateThreads

RateRequests ==
  { [ip |-> "10.99.88.77", method |-> "GET", route |-> "/api/stats", data |-> NoData],
    [ip |-> "127.0.0.1",   method |-> "GET", route |-> "/api/stats", data |-> NoData] }

\* a quiet machine
RateSamples == Samples({<<>>}, {<<>>}, {<<>>}, {30}, {10}, {<<>>}, {50})

InitRate == InitWith({Stored(Generic)}, {[cpu_name |-> "", gpu_name |-> ""]})

NextRate ==
  \/ StartLoad
  \/ WarmUp(RateSamples)
  \/ \E th \in RateThreads : Arrive(th, RateRequests, MaxRequests)
  \/ \E th \in RateThreads : Limit(th)
  \/ \E th \in RateThreads : StatsView(th)
  \/ \E th \in RateThreads : StatsBody(th, RateSamples)
  \/ \E th \in RateThreads : LogStats(th)
  \/ Tick

SpecRate == InitRate /\ [][NextRate]_vars

(***************************************************************************)
(* SpecGuard: POST requests from a remote and from the local address.      *)
(***************************************************************************)
GuardThreads == 1..MaxGuardThreads

\* the bodies the POST requests carry
PostRoutes ==
  { [route |-> "/api/thresholds",              data |-> [cpu |-> [temp_warn |-> 70]]],
    [route |-> "/api/thresholds/reset",        data |-> NoData],
    [route |-> "/api/forge/fan_curves/select", data |-> [preset |-> "SILENT"]],
    [route |-> "/api/forge/benchmark",         data |-> [mode |-> "quick"]] }

PostsFrom(Ips) ==
  { [ip |-> ip, method |-> "POST", route |-> p.route, data |-> p.data] :
      ip \in Ips, p \in PostRoutes }

InitGuard == InitWith({Stored(Generic)}, {[cpu_name |-> "", gpu_name |-> ""]})

NextGuard ==
  \/ StartLoad
  \/ WarmUp(RateSamples)
  \/ SaveWrite
  \/ \E th \in GuardThreads : Arrive(th, PostsFrom({"192.168.1.100"}), MaxRemotePosts)
  \/ \E th \in GuardThreads : Arrive(th, PostsFrom({"127.0.0.1", "::1"}), MaxLocalPosts)
  \/ \E th \in GuardThreads : Limit(th)
  \/ \E th \in GuardThreads : ThresholdsView(th)
  \/ \E th \in GuardThreads : ResetView(th)
  \/ \E th \in GuardThreads : Saved(th)
  \/ \E th \in GuardThreads : FanView(th)
  \/ \E th \in GuardThreads : BenchView(th)
  \/ \E th \in GuardThreads : BenchSpawn(th)
  \/ \E i \in 1..MaxGuardThreads : WorkerUpd(i)
  \/ \E i \in 1..MaxGuardThreads : WorkerDone(i)
  \/ \E i \in 1..MaxGuardThreads : WorkerFail(i)

SpecGuard == InitGuard /\ [][NextGuard]_vars

(***************************************************************************)
(* SpecBench: concurrent POST /api/forge/benchmark requests of the local   *)
(* machine, and the worker thread they start.                              *)
(***************************************************************************)
BenchThreads == 1..MaxBenchThreads

\* valid modes and one that is not
BenchRequests ==
  { [ip |-> "127.0.0.1", method |-> "POST", route |-> "/api/forge/benchmark",
     data |-> [mode |-> m]] : m \in {"quick", "full", "turbo"} }

InitBench == InitWith({Stored(Generic)}, {[cpu_name |-> "", gpu_name |-> ""]})

NextBench ==
  \/ StartLoad
  \/ WarmUp(RateSamples)
  \/ \E th \in BenchThreads : Arrive(th, BenchRequests, MaxBenchPosts)
  \/ \E th \in BenchThreads : BenchView(th)
  \/ \E th \in BenchThreads : BenchSpawn(th)
  \/ \E i \in BenchThreads : WorkerUpd(i)
  \/ \E i \in BenchThreads : WorkerDone(i)
  \/ \E i \in BenchThreads : WorkerFail(i)

SpecBench == InitBench /\ [][NextBench]_vars

\* a handler that has set running goes on to start its worker thread (line 1097), and
\* a worker thread that can take a step of _run_benchmark takes one
BenchFairness ==
  /\ WF_vars(\E th \in BenchThreads : BenchSpawn(th))
  /\ WF_vars(\E i \in BenchThreads : WorkerUpd(i) \/ WorkerDone(i) \/ WorkerFail(i))

SpecBenchLive == SpecBench /\ BenchFairness

(***************************************************************************)
(* SpecLog: concurrent GET /api/stats requests of the local machine over   *)
(* more than a minute, then POST /api/shutdown.                            *)
(***************************************************************************)
LogThreads == 1..MaxLogThreads

LogRequests ==
  { [ip |-> "127.0.0.1", method |-> "GET", route |-> "/api/stats", data |-> NoData] }

ShutdownRequests ==
  { [ip |-> "::1", method |-> "POST", route |-> "/api/shutdown", data |-> NoData] }

InitLog == InitWith({Stored(Generic)}, {[cpu_name |-> "", gpu_name |-> ""]})

NextLog ==
  \/ StartLoad
  \/ WarmUp(RateSamples)
  \/ \E th \in LogThreads : Arrive(th, LogRequests, MaxLogRequests)
  \/ \E th \in LogThreads : Arrive(th, ShutdownRequests, MaxShutdowns)
  \/ \E th \in LogThreads : StatsView(th)
  \/ \E th \in LogThreads : StatsBody(th, RateSamples)
  \/ \E th \in LogThreads : LogStats(th)
  \/ \E th \in LogThreads : ShutdownView(th)
  \/ \E th \in LogThreads : FlushTake(th)
  \/ \E th \in LogThreads : FlushWrite(th)
  \/ Minute

SpecLog == InitLog /\ [][NextLog]_vars

(***************************************************************************)
(* SpecGpu: GPU usage readings, null ones among them, under profiles whose *)
(* gpu.usage_sustain_sec differs from cpu.usage_sustain_sec.               *)
(***************************************************************************)
\* the generic profile as a user saved it with these two usage_sustain_sec
WithSustains(cpu_sec, gpu_sec) ==
  [Generic EXCEPT !.cpu.usage_sustain_sec = cpu_sec, !.gpu.usage_sustain_sec = gpu_sec]

GpuFiles == {Stored(WithSustains(30, 10)), Stored(WithSustains(10, 30))}

\* readings of 99 with at most MaxLows of 40 and MaxNulls null ones among them
GpuSamples ==
  Samples({<<>>}, {<<>>}, {<<>>}, {30}, {50},
          {<<99>>} \cup (IF CountBelow(pushed.gpu, 99) < MaxLows THEN {<<40>>} ELSE {})
                   \cup (IF calls - Len(pushed.gpu) < MaxNulls THEN {<<>>} ELSE {}),
          {50})

InitGpu == InitWith(GpuFiles, {[cpu_name |-> "", gpu_name |-> ""]})

NextGpu ==
  \/ StartLoad
  \/ WarmUp(GpuSamples)
  \/ Evaluate(GpuSamples, MaxGpuCalls)

SpecGpu == InitGpu /\ [][NextGpu]_vars

(***************************************************************************)
(* SpecBoundary: updates at the bounds of what _validate accepts, resets,  *)
(* and /api/stats calls with numeric readings, from the generic profile.   *)
(***************************************************************************)
BoundaryPayloads ==
  { [network |-> [baseline_samples |-> 0]],
    [cpu |-> [usage_sustain_sec |-> 0]],
    [cpu |-> [usage_warn |-> 0, usage_crit |-> RANGE_MAX]],
    [network |-> [spike_multiplier |-> 0, baseline_samples |-> 1]],
    \* rejected by _validate
    [network |-> [baseline_samples |-> 0 - 1]] }

BoundarySamples == Samples({<<>>}, {<<>>}, {<<>>}, {30}, {96}, {<<>>, <<40>>}, {50})

InitBoundary == InitWith({Missing, Stored(Generic)}, {[cpu_name |-> "", gpu_name |-> ""]})

NextBoundary ==
  \/ StartLoad
  \/ SaveWrite
  \/ WarmUp(BoundarySamples)
  \/ Evaluate(BoundarySamples, MaxBoundaryCalls)
  \/ Update(BoundaryPayloads)
  \/ Reset

SpecBoundary == InitBoundary /\ [][NextBoundary]_vars

(***************************************************************************)
(* SpecMix: GET /api/stats requests served by concurrent threads while the *)
(* thresholds are updated and reset.                                       *)
(***************************************************************************)
MixPayloads == { [cpu |-> [temp_warn |-> 85, usage_warn |-> 92]] }

MixSamples == Samples({<<80>>}, {<<>>}, {<<>>}, {30}, {90}, {<<>>}, {50})

InitMix == InitWith({Stored(WithSustain(5))}, {[cpu_name |-> "", gpu_name |-> ""]})

NextMix ==
  \/ StartLoad
  \/ SaveWrite
  \/ WarmUp(MixSamples)
  \/ \E th \in Threads :
       \/ Call(th, MixSamples, MaxMixCalls)
       \/ Acquire(th)
       \/ LockedAppend(th)
       \/ NetAppend(th)
       \/ NetCheck(th)
  \/ UpdateDuring(MixPayloads)
  \/ ResetDuring

SpecMix == InitMix /\ [][NextMix]_vars

(***************************************************************************)
(* SpecFeedback: concurrent feedback submissions of the local machine over *)
(* more than an hour.                                                      *)
(***************************************************************************)
FbThreads == 1..MaxFbThreads

\* "Fan loud" as typed, and with other case and white space around it
FbMessages ==
  { <<"F", "a", "n", " ", "l", "o", "u", "d">>,
    <<" ", "f", "a", "n", " ", "L", "O", "U", "D", "\n">> }

FbRequests ==
  { [ip |-> "127.0.0.1", method |-> "POST", route |-> "/api/feedback",
     data |-> [category |-> "bug", message |-> m]] : m \in FbMessages }

InitFeedback == InitWith({Stored(Generic)}, {[cpu_name |-> "", gpu_name |-> ""]})

NextFeedback ==
  \/ StartLoad
  \/ WarmUp(RateSamples)
  \/ \E th \in FbThreads : Arrive(th, FbRequests, MaxFeedbacks)
  \/ \E th \in FbThreads : FeedbackView(th)
  \/ \E th \in FbThreads : FbLimit(th)
  \/ \E th \in FbThreads : FbStamp(th)
  \/ \E th \in FbThreads : FbDuplicate(th)
  \/ HalfHour

SpecFeedback == InitFeedback /\ [][NextFeedback]_vars

(***************************************************************************)
(* SpecDetect: detect_thresholds called several times in a row, on known   *)
(* and unknown hardware names.                                             *)
(***************************************************************************)
\* faulty variant, for sensitivity: no copy, the writes land on DEFAULT_THRESHOLDS
DetectOnDefaults(C, G) ==
  /\ detect.calls < MaxDetectCalls
  /\ \E c \in C, g \in G :
       LET r == detect_on(module_defaults, c, g)
       IN  /\ detect' = [calls |-> detect.calls + 1, cpu_name |-> c, gpu_name |-> g,
                         result |-> r,
                         earlier |-> IF detect.calls = 0 THEN {}
                                     ELSE detect.earlier \cup
                                            {<<detect.cpu_name, detect.gpu_name>>}]
           /\ module_defaults' = r
  /\ UNCHANGED <<pc, sysinfo, thresh, file, io, sustained, net_base, calls, pushed, boot,
                 threads, state_lock, resp, gate, forge, log, fb, beside>>

\* one call detect_thresholds(c, g): line 99 copies the defaults, lines 101-127 write
\* on the copy and return it
Detect(C, G) ==
  /\ detect.calls < MaxDetectCalls
  /\ \E c \in C, g \in G :
       detect' = [calls |-> detect.calls + 1, cpu_name |-> c, gpu_name |-> g,
                  result |-> detect_on(module_defaults, c, g),
                  earlier |-> IF detect.calls = 0 THEN {}
                              ELSE detect.earlier \cup
                                     {<<detect.cpu_name, detect.gpu_name>>}]
  /\ UNCHANGED module_defaults
  /\ UNCHANGED <<pc, sysinfo, thresh, file, io, sustained, net_base, calls, pushed, boot,
                 threads, state_lock, resp, gate, forge, log, fb, beside>>

\* the names the calls are made with: known parts in mixed and upper case, a name
\* that holds two table keys, unknown names, the empty string and None
DetectCpuNames ==
  {"AMD Ryzen 9 5900X", "AMD Ryzen 9 7950X", "INTEL(R) CORE(TM) I9-13900K",
   "Unknown CPU", "", NoName}
DetectGpuNames ==
  {"NVIDIA GeForce RTX 3080", "NVIDIA GeForce RTX 4090 + RTX 3080", "Unknown GPU", "",
   NoName}

InitDetect == InitWith({Missing}, {[cpu_name |-> "", gpu_name |-> ""]})

NextDetect == Detect(DetectCpuNames, DetectGpuNames)

SpecDetect == InitDetect /\ [][NextDetect]_vars

(***************************************************************************)
(* scripts/bugwatcher.py, the CI watcher: ci_poll_cycle with the helpers   *)
(* it calls.  A text (job logs, a pattern) is the tuple of its characters. *)
(* GitHub is the list of failed runs CiJobLogs, a run's id its place in    *)
(* the list; the answers of the API, of the fix functions and of git are   *)
(* inputs of the steps.                                                    *)
(***************************************************************************)

\* the server's variables, which bugwatcher.py and launch.py never touch
kam ==
  <<pc, sysinfo, thresh, file, io, sustained, net_base, calls, pushed, boot, threads,
    state_lock, resp, module_defaults, detect, gate, forge, log, fb>>

\* lines 165-231: the known CI failures in the order of the dict, each pattern the tuple
\* of its characters
CI_KNOWN_ISSUES ==
  <<
    [key |-> "nsis_not_in_path", fix |-> "auto_fix",
     patterns |-> <<
       \* makensis' is not recognized
       <<"m","a","k","e","n","s","i","s","'"," ","i","s"," ","n","o","t"," ","r","e","c","o","g","n","i","z","e","d">>,
       \* makensis is not recognized
       <<"m","a","k","e","n","s","i","s"," ","i","s"," ","n","o","t"," ","r","e","c","o","g","n","i","z","e","d">>,
       \* 'makensis' is not recognized
       <<"'","m","a","k","e","n","s","i","s","'"," ","i","s"," ","n","o","t"," ","r","e","c","o","g","n","i","z","e","d">>,
       \* makensis: command not found
       <<"m","a","k","e","n","s","i","s",":"," ","c","o","m","m","a","n","d"," ","n","o","t"," ","f","o","u","n","d">> >>],
    [key |-> "missing_python_dep", fix |-> "auto_fix",
     patterns |-> <<
       \* no module named
       <<"n","o"," ","m","o","d","u","l","e"," ","n","a","m","e","d">>,
       \* modulenotfounderror
       <<"m","o","d","u","l","e","n","o","t","f","o","u","n","d","e","r","r","o","r">>,
       \* importerror
       <<"i","m","p","o","r","t","e","r","r","o","r">>,
       \* cannot import name
       <<"c","a","n","n","o","t"," ","i","m","p","o","r","t"," ","n","a","m","e">> >>],
    [key |-> "test_suite_encoding_fp", fix |-> "auto_fix",
     patterns |-> <<
       \* open() call(s) missing encoding: with open(
       <<"o","p","e","n","(",")"," ","c","a","l","l","(","s",")"," ","m","i","s","s","i","n","g"," ","e","n","c","o","d","i","n","g",":"," ","w","i","t","h"," ","o","p","e","n","(">>,
       \* missing encoding: with open(
       <<"m","i","s","s","i","n","g"," ","e","n","c","o","d","i","n","g",":"," ","w","i","t","h"," ","o","p","e","n","(">> >>],
    [key |-> "test_suite_failed", fix |-> "log_and_escalate",
     patterns |-> <<
       \* [fail]
       <<"[","f","a","i","l","]">>,
       \* assertionerror
       <<"a","s","s","e","r","t","i","o","n","e","r","r","o","r">>,
       \* tests failed
       <<"t","e","s","t","s"," ","f","a","i","l","e","d">> >>],
    [key |-> "pyinstaller_build_failed", fix |-> "log_and_escalate",
     patterns |-> <<
       \* error: failed to
       <<"e","r","r","o","r",":"," ","f","a","i","l","e","d"," ","t","o">>,
       \* build failed
       <<"b","u","i","l","d"," ","f","a","i","l","e","d">>,
       \* pyinstaller failed
       <<"p","y","i","n","s","t","a","l","l","e","r"," ","f","a","i","l","e","d">>,
       \* failed to collect
       <<"f","a","i","l","e","d"," ","t","o"," ","c","o","l","l","e","c","t">> >>],
    [key |-> "actions_checkout_failed", fix |-> "log_and_escalate",
     patterns |-> <<
       \* error: process completed with exit code
       <<"e","r","r","o","r",":"," ","p","r","o","c","e","s","s"," ","c","o","m","p","l","e","t","e","d"," ","w","i","t","h"," ","e","x","i","t"," ","c","o","d","e">>,
       \* checkout failed
       <<"c","h","e","c","k","o","u","t"," ","f","a","i","l","e","d">> >>]
  >>

\* lines 605-610: the place in CI_KNOWN_ISSUES of the first issue with a pattern in the
\* lower-cased logs, 0 for (None, None)
_diagnose_ci_failure(logs_text) ==
  LET lowered == lower(logs_text)
      Hit(i) == \E j \in 1..Len(CI_KNOWN_ISSUES[i].patterns) :
                   IsSubstring(lower(CI_KNOWN_ISSUES[i].patterns[j]), lowered)
  IN  IF \E i \in 1..Len(CI_KNOWN_ISSUES) : Hit(i)
        THEN CHOOSE i \in 1..Len(CI_KNOWN_ISSUES) : Hit(i) /\ \A j \in 1..(i - 1) : ~Hit(j)
        ELSE 0

\* the job logs of the failed runs GitHub lists, the oldest run first
CiJobLogs ==
  <<
    \* no failed job, or none with logs
    <<>>,
    \* Segmentation fault
    <<"S","e","g","m","e","n","t","a","t","i","o","n"," ","f","a","u","l","t">>,
    \* AssertionError: tests failed
    <<"A","s","s","e","r","t","i","o","n","E","r","r","o","r",":"," ","t","e","s","t","s"," ","f","a","i","l","e","d">>,
    \* 'makensis' is not recognized
    <<"'","m","a","k","e","n","s","i","s","'"," ","i","s"," ","n","o","t"," ","r","e","c","o","g","n","i","z","e","d">>,
    \* ModuleNotFoundError: No module named 'yaml'\nError: Process completed with exit code 1
    <<"M","o","d","u","l","e","N","o","t","F","o","u","n","d","E","r","r","o","r",":"," ","N","o"," ","m","o","d","u","l","e"," ","n","a","m","e","d"," ","'","y","a","m","l","'","\n","E","r","r","o","r",":"," ","P","r","o","c","e","s","s"," ","c","o","m","p","l","e","t","e","d"," ","w","i","t","h"," ","e","x","i","t"," ","c","o","d","e"," ","1">>
  >>

\* _diagnose_ci_failure on the texts _fetch_job_logs returns in the model, worked out
\* once
Diagnosed ==
  [logs_text \in {CiJobLogs[id] : id \in 1..Len(CiJobLogs)} \cup {<<>>} |->
     _diagnose_ci_failure(logs_text)]

\* lines 735-741: the issues with a fix function, and the file each function patches
\* (lines 446, 484, 515)
FIX_FUNCTIONS ==
  [k \in {"nsis_not_in_path", "missing_python_dep", "test_suite_encoding_fp"} |->
     IF k = "test_suite_encoding_fp" THEN "test_kam.py" ELSE ".github/workflows/deploy.yml"]

\* lines 399-515: what the fix function of issue key may return when the patches of the
\* issues in patched are in the code base: [] when its patch is there already or cannot
\* be applied, else the file it wrote
FixOutcomes(key, patched) ==
  IF key \in DOMAIN FIX_FUNCTIONS /\ key \notin patched
    THEN {<<>>, <<FIX_FUNCTIONS[key]>>}
    ELSE {<<>>}

\* how far the commands of _git_push_fix get: the one that raises CalledProcessError,
\* or "pushed" when none does
GitOutcomes == {"add_failed", "commit_failed", "push_failed", "rev_parse_failed", "pushed"}

\* lines 615-641: _git_push_fix with the outcome g of its commands: the commands that
\* changed the repository or its remote, and whether a HEAD SHA is returned
_git_push_fix(files_changed, g) ==
  [ops     |-> CASE g \in {"add_failed", "commit_failed"} -> <<>>
                 [] g = "push_failed" -> <<"commit">>
                 [] OTHER -> <<"commit", "push">>,
   new_sha |-> g = "pushed"]

\* line 699: if not logs_text
NoLogs(logs_text) == logs_text = <<>>

\* lines 719-721
AutoFix(issue) == issue.fix = "auto_fix"

\* faulty variant, for sensitivity: the git commands run whatever the fix function returned
NothingChangedIgnored(files_changed) == FALSE

\* line 743: if not files_changed
NothingChanged(files_changed) == files_changed = <<>>

\* lines 646-668 and 786-804: the conclusions _wait_for_ci_run may return, and the
\* action logged for each
CiConclusions == {"success", "timeout", "failure"}
Verdict(conclusion) ==
  CASE conclusion = "success" -> "fix_confirmed_green"
    [] conclusion = "timeout" -> "fix_wait_timeout"
    [] OTHER -> "fix_still_failing"

\* lines 689-806, the body of the loop for one run: logs_text is what _fetch_job_logs
\* returned, files what the fix function returns if called, g the outcome of git if
\* called, conclusion what _wait_for_ci_run returns if called.  The result holds the
\* actions written to logs/ci_watcher.jsonl, the git commands that took effect, and
\* the files the fix function reported.
ci_run(logs_text, files, g, wait_for_green, conclusion) ==
  LET k == Diagnosed[logs_text]
      Quiet(action) == [log |-> <<action>>, git |-> <<>>, files_changed |-> <<>>]
  IN  IF NoLogs(logs_text) THEN Quiet("no_logs")
      ELSE IF k = 0 THEN Quiet("undiagnosed")
      ELSE IF ~AutoFix(CI_KNOWN_ISSUES[k]) THEN Quiet("escalated")
      ELSE LET files_changed ==
                 IF CI_KNOWN_ISSUES[k].key \in DOMAIN FIX_FUNCTIONS THEN files ELSE <<>>
           IN  IF NothingChanged(files_changed) THEN Quiet("fix_already_applied")
               ELSE LET push == _git_push_fix(files_changed, g)
                    IN  [log |-> IF ~push.new_sha THEN <<"fix_push_failed">>
                                 ELSE IF wait_for_green
                                        THEN <<"fix_pushed", Verdict(conclusion)>>
                                        ELSE <<"fix_pushed">>,
                         git |-> push.ops,
                         files_changed |-> files_changed]

\* the ids in S, the newest (greatest) first, as the API lists the runs
Descending(S) ==
  [i \in 1..Cardinality(S) |-> CHOOSE x \in S : Cardinality({y \in S : y > x}) = i - 1]

\* lines 922-954: main reads GITHUB_TOKEN (line 123) and --wait, and starts with
\* seen_run_ids = set()
CiStart ==
  /\ ci.at = "off"
  /\ \E token \in BOOLEAN, wait \in BOOLEAN :
       ci' = [ci EXCEPT !.at = "idle", !.token = token, !.wait = wait]
  /\ UNCHANGED <<kam, bugs, launcher>>

\* lines 680-687 and 570-587: ci_poll_cycle up to its loop.  Without a token it returns
\* []; else the API answers with the failed runs up to some run upto (none when the
\* request fails), and those not in seen_run_ids are added to it and queued
CiPoll ==
  /\ ci.at = "idle"
  /\ IF ~ci.token THEN ci' = [ci EXCEPT !.processed = <<>>]
     ELSE \E upto \in 0..Len(CiJobLogs) :
            LET new_failures == {id \in 1..upto : id \notin ci.seen_run_ids}
            IN  ci' = [ci EXCEPT !.seen_run_ids = @ \cup new_failures,
                                 !.failures = Descending(new_failures),
                                 !.processed = <<>>,
                                 !.at = IF new_failures = {} THEN "idle" ELSE "cycle"]
  /\ UNCHANGED <<kam, bugs, launcher>>

\* lines 689-806: one pass of the loop of ci_poll_cycle.  _fetch_job_logs returns the
\* run's job logs or '' (a failed request, line 592); ci.handled keeps, per run, the
\* logs that were fetched and the files the fix function reported
CiRun ==
  /\ ci.at = "cycle"
  /\ ci.failures # <<>>
  /\ LET run_id == Head(ci.failures)
     IN  \E logs_text \in {CiJobLogs[run_id], <<>>}, g \in GitOutcomes,
            conclusion \in CiConclusions :
           LET k   == Diagnosed[logs_text]
               key == IF k = 0 THEN "" ELSE CI_KNOWN_ISSUES[k].key
           IN  \E files \in FixOutcomes(key, ci.patched) :
                 LET r == ci_run(logs_text, files, g, ci.wait, conclusion)
                 IN  ci' = [ci EXCEPT
                       !.failures = Tail(@),
                       !.processed = Append(@, run_id),
                       !.patched = IF r.files_changed = <<>> THEN @ ELSE @ \cup {key},
                       !.git = @ \o [i \in 1..Len(r.git) |-> <<r.git[i], run_id>>],
                       !.log = @ \o [i \in 1..Len(r.log) |-> <<run_id, r.log[i]>>],
                       !.handled = [id \in DOMAIN @ \cup {run_id} |->
                                      IF id = run_id
                                        THEN [logs_text |-> logs_text,
                                              files_changed |-> r.files_changed]
                                        ELSE @[id]]]
  /\ UNCHANGED <<kam, bugs, launcher>>

\* line 808: return processed
CiReturn ==
  /\ ci.at = "cycle"
  /\ ci.failures = <<>>
  /\ ci' = [ci EXCEPT !.at = "idle"]
  /\ UNCHANGED <<kam, bugs, launcher>>

(***************************************************************************)
(* SpecCi: the CI watcher over failed runs of every kind its diagnosis     *)
(* tells apart, with and without a token, with and without --wait.         *)
(***************************************************************************)

InitCi == InitWith({Stored(Generic)}, {[cpu_name |-> "", gpu_name |-> ""]})

NextCi ==
  \/ CiStart
  \/ CiPoll
  \/ CiRun
  \/ CiReturn

SpecCi == InitCi /\ [][NextCi]_vars

(***************************************************************************)
(* scripts/bugwatcher.py, the local bug poll: poll_cycle on                *)
(* logs/feedback/bug.jsonl, to which api_feedback appends.  A message is   *)
(* the tuple of its characters; a version is the sequence of its parts     *)
(* between the dots, "1.4.1" being <<1, 4, 1>>, a part that is no number   *)
(* being a string.                                                         *)
(***************************************************************************)

\* lines 139-159: the known issues in the order of the dict
KNOWN_ISSUES ==
  <<
    [key |-> "test_data_sanitization", action |-> "resolve", versions_fixed |-> <<>>,
     patterns |-> <<
       \* crash line2 line3end
       <<"c","r","a","s","h"," ","l","i","n","e","2"," ","l","i","n","e","3","e","n","d">> >>],
    [key |-> "startup_crash_v140", action |-> "resolve_if_old", versions_fixed |-> <<<<1, 4, 1>>>>,
     patterns |-> <<
       \* crash
       <<"c","r","a","s","h">>,
       \* startup
       <<"s","t","a","r","t","u","p">>,
       \* not working
       <<"n","o","t"," ","w","o","r","k","i","n","g">>,
       \* won't start
       <<"w","o","n","'","t"," ","s","t","a","r","t">>,
       \* fails to start
       <<"f","a","i","l","s"," ","t","o"," ","s","t","a","r","t">>,
       \* won't launch
       <<"w","o","n","'","t"," ","l","a","u","n","c","h">> >>],
    [key |-> "na_readings", action |-> "resolve_if_old", versions_fixed |-> <<<<1, 4, 0>>>>,
     patterns |-> <<
       \* n/a
       <<"n","/","a">>,
       \* not showing
       <<"n","o","t"," ","s","h","o","w","i","n","g">>,
       \* blank
       <<"b","l","a","n","k">>,
       \* missing reading
       <<"m","i","s","s","i","n","g"," ","r","e","a","d","i","n","g">>,
       \* missing sensor
       <<"m","i","s","s","i","n","g"," ","s","e","n","s","o","r">> >>]
  >>

\* server.py lines 950 and 952: the words that make a bug report critical, or high
CRITICAL_WORDS ==
  <<
    \* crash
    <<"c","r","a","s","h">>,
    \* freeze
    <<"f","r","e","e","z","e">>,
    \* not working
    <<"n","o","t"," ","w","o","r","k","i","n","g">>,
    \* broken
    <<"b","r","o","k","e","n">>,
    \* error
    <<"e","r","r","o","r">>,
    \* exception
    <<"e","x","c","e","p","t","i","o","n">>,
    \* won't start
    <<"w","o","n","'","t"," ","s","t","a","r","t">>,
    \* fails
    <<"f","a","i","l","s">> >>
HIGH_WORDS ==
  <<
    \* wrong
    <<"w","r","o","n","g">>,
    \* incorrect
    <<"i","n","c","o","r","r","e","c","t">>,
    \* missing
    <<"m","i","s","s","i","n","g">>,
    \* n/a
    <<"n","/","a">>,
    \* not showing
    <<"n","o","t"," ","s","h","o","w","i","n","g">>,
    \* blank
    <<"b","l","a","n","k">>,
    \* stuck
    <<"s","t","u","c","k">> >>

\* the bug reports users send
BugMessages ==
  {
    \* App crash
    <<"A","p","p"," ","c","r","a","s","h">>,
    \* crash line2 line3end
    <<"c","r","a","s","h"," ","l","i","n","e","2"," ","l","i","n","e","3","e","n","d">>,
    \* Temps blank
    <<"T","e","m","p","s"," ","b","l","a","n","k">>,
    \* Fan loud
    <<"F","a","n"," ","l","o","u","d">> }

\* any(k in kw for k in words)
AnyIn(words, kw) == \E i \in 1..Len(words) : IsSubstring(words[i], kw)

\* server.py lines 947-953, for category 'bug'
priority(msg) ==
  LET kw == lower(msg)
  IN  IF AnyIn(CRITICAL_WORDS, kw) THEN "critical"
      ELSE IF AnyIn(HIGH_WORDS, kw) THEN "high"
      ELSE "normal"

\* lines 327-332: the place in KNOWN_ISSUES of the first issue with a pattern in the
\* lower-cased message, 0 for (None, None)
_match(message) ==
  LET msg == lower(message)
      Hit(i) == AnyIn(KNOWN_ISSUES[i].patterns, msg)
  IN  IF \E i \in 1..Len(KNOWN_ISSUES) : Hit(i)
        THEN CHOOSE i \in 1..Len(KNOWN_ISSUES) : Hit(i) /\ \A j \in 1..(i - 1) : ~Hit(j)
        ELSE 0

\* priority and _match on the messages of the model, worked out once
Prioritized == [m \in BugMessages |-> priority(m)]
Matched == [m \in BugMessages |-> _match(m)]

\* lines 235-239: the first three parts as integers, (0, 0, 0) when one is no integer
_ver_tuple(v) ==
  LET parts == SubSeq(v, 1, IF Len(v) < 3 THEN Len(v) ELSE 3)
  IN  IF \A i \in 1..Len(parts) : parts[i] \in Nat THEN parts ELSE <<0, 0, 0>>

\* Python's a < b on tuples of integers
TupleLess(a, b) ==
  \E i \in 1..(Len(b)) :
    /\ \A j \in 1..(i - 1) : j <= Len(a) /\ a[j] = b[j]
    /\ \/ i = Len(a) + 1
       \/ i <= Len(a) /\ a[i] < b[i]

\* min(fixed_in) on a non-empty list of tuples
MinTuple(ts) == ts[CHOOSE i \in 1..Len(ts) : \A j \in 1..Len(ts) : ~TupleLess(ts[j], ts[i])]

\* server.py line 124 as a version, and the version of an older build
VER == <<1, 5, 10>>
BugVersions == {VER, <<1, 4, 0>>}

\* server.py line 962: f'{cat[:3].upper()}-{int(time.time())}' for category 'bug' at
\* now milliseconds
bug_id(now) == <<"BUG", now \div 1000>>

\* lines 353-386: what poll_cycle decides for a bug: the status and the fix summary it
\* writes (a known issue's key standing for its fix_summary), and whether it escalates
decide(bug) ==
  LET k == Matched[bug.message]
      issue == KNOWN_ISSUES[k]
      fixed_in == [i \in 1..Len(issue.versions_fixed) |-> _ver_tuple(issue.versions_fixed[i])]
  IN  IF k = 0
        THEN [status |-> "escalated", fix_summary |-> "No matching known issue"]
      ELSE IF issue.action = "resolve"
        THEN [status |-> "resolved", fix_summary |-> issue.key]
      ELSE IF issue.action = "resolve_if_old"
        THEN IF fixed_in # <<>> /\ TupleLess(_ver_tuple(bug.version), MinTuple(fixed_in))
               THEN [status |-> "resolved", fix_summary |-> issue.key]
               ELSE [status |-> "escalated", fix_summary |-> "Version >= fix version"]
      ELSE [status |-> "open", fix_summary |-> ""]

\* lines 293-316: _rewrite_bug on the lines of bug.jsonl: every line with the id is
\* rewritten
_rewrite_bug(lines, id, status, fix_summary, tests_passing) ==
  [i \in 1..Len(lines) |->
     IF lines[i].id = id
       THEN [lines[i] EXCEPT !.status = status,
                             !.fix_summary = fix_summary,
                             !.tests_passing = IF tests_passing # <<>> THEN tests_passing ELSE @]
       ELSE lines[i]]

\* lines 256-272: the passing count _run_tests returns, or None
TestCounts == {<<>>, <<58>>}

\* server.py lines 933-970 for a bug report that passes the checks of lines 939-945 (no
\* message is sent twice, FB_DEDUP_WIN being longer than the model's time): the entry
\* is appended to logs/feedback/bug.jsonl.  The build that writes it is the server's or
\* an older one.
Report ==
  /\ Len(bugs.file) < MaxReports
  /\ \E message \in BugMessages, version \in BugVersions :
       /\ \A i \in 1..Len(bugs.file) : bugs.file[i].message # message
       /\ bugs' = [bugs EXCEPT !.file = Append(@,
                     [id |-> bug_id(clock), message |-> message, version |-> version,
                      priority |-> Prioritized[message], status |-> "open",
                      fix_summary |-> "", tests_passing |-> <<>>])]
  /\ UNCHANGED <<kam, ci, launcher>>

\* lines 338-345 and 275-290: poll_cycle loads the open bugs, each kept here with its
\* place in the file.  bugs.due collects the places of the bugs that were open and not
\* in seen_ids when a cycle loaded them
PollLoad ==
  /\ bugs.at = "idle"
  /\ bugs.cycles < MaxBugCycles
  /\ LET open == {i \in 1..Len(bugs.file) : bugs.file[i].status = "open"}
         todo == [n \in 1..Cardinality(open) |->
                    LET i == CHOOSE x \in open : Cardinality({y \in open : y < x}) = n - 1
                    IN  [at |-> i, bug |-> bugs.file[i]]]
     IN  bugs' = [bugs EXCEPT !.at = "cycle",
                              !.cycles = @ + 1,
                              !.todo = todo,
                              !.fixed = <<>>,
                              !.escalated_ids = <<>>,
                              !.due = @ \cup {i \in open : bugs.file[i].id \notin bugs.seen_ids}]
  /\ UNCHANGED <<kam, ci, launcher>>

\* lines 346-386: one pass of the loop.  bugs.handled keeps the place in the file of
\* every bug the loop did not skip
PollBug ==
  /\ bugs.at = "cycle"
  /\ bugs.todo # <<>>
  /\ LET bug == Head(bugs.todo).bug
         d   == decide(bug)
     IN  IF bug.id \in bugs.seen_ids \/ d.status = "open"
           THEN bugs' = [bugs EXCEPT !.todo = Tail(@)]
           ELSE \E tests_n \in IF d.status = "resolved" /\ bug.priority = "critical"
                                 THEN TestCounts ELSE {<<>>} :
                  bugs' = [bugs EXCEPT
                    !.todo = Tail(@),
                    !.file = _rewrite_bug(@, bug.id, d.status, d.fix_summary, tests_n),
                    !.escalated = IF d.status = "escalated" THEN Append(@, bug) ELSE @,
                    !.fixed = IF d.status = "resolved" THEN Append(@, bug.id) ELSE @,
                    !.escalated_ids = IF d.status = "escalated" THEN Append(@, bug.id) ELSE @,
                    !.seen_ids = @ \cup {bug.id},
                    !.handled = Append(@, Head(bugs.todo).at)]
  /\ UNCHANGED <<kam, ci, launcher>>

\* line 394: return fixed, escalated
PollReturn ==
  /\ bugs.at = "cycle"
  /\ bugs.todo = <<>>
  /\ bugs' = [bugs EXCEPT !.at = "idle"]
  /\ UNCHANGED <<kam, ci, launcher>>

(***************************************************************************)
(* SpecWatch: bug reports arrive while time passes and poll_cycle runs.    *)
(***************************************************************************)

InitWatch == InitWith({Stored(Generic)}, {[cpu_name |-> "", gpu_name |-> ""]})

NextWatch ==
  \/ Report
  \/ Tick
  \/ PollLoad
  \/ PollBug
  \/ PollReturn

SpecWatch == InitWatch /\ [][NextWatch]_vars

(***************************************************************************)
(* launch.py: the watch_for_shutdown thread.  A poll is one pass of its    *)
(* loop; whether urlopen returns or raises is an input of the step.        *)
(***************************************************************************)

\* line 73: the failures in a row at which the launcher exits
FAILURES_TO_EXIT == 5

\* faulty variant, for sensitivity: a poll that succeeds leaves the count as it is
poll_okKeeps(consecutive_failures) == consecutive_failures

\* line 70: urlopen returned
poll_ok(consecutive_failures) == 0

\* line 72: urlopen raised
poll_failed(consecutive_failures) == consecutive_failures + 1

\* lines 68-70 and 75: a poll that is answered.  launcher.polls keeps the outcome of
\* every poll
PollOk ==
  /\ ~launcher.exited
  /\ Len(launcher.polls) < MaxPolls
  /\ launcher' = [launcher EXCEPT
                    !.consecutive_failures = poll_ok(@),
                    !.polls = Append(@, "ok")]
  /\ UNCHANGED <<kam, ci, bugs>>

\* lines 68-69 and 71-75: a poll that fails (no answer within 5 s, a refused connection
\* or an HTTP error status); os._exit(0) at the fifth in a row
PollFail ==
  /\ ~launcher.exited
  /\ Len(launcher.polls) < MaxPolls
  /\ LET n == poll_failed(launcher.consecutive_failures)
     IN  launcher' = [launcher EXCEPT
                        !.consecutive_failures = n,
                        !.exited = n >= FAILURES_TO_EXIT,
                        !.polls = Append(@, "failed")]
  /\ UNCHANGED <<kam, ci, bugs>>

(***************************************************************************)
(* SpecLaunch: polls of the launcher with every order of answers and       *)
(* failures.                                                               *)
(***************************************************************************)

InitLaunch == InitWith({Stored(Generic)}, {[cpu_name |-> "", gpu_name |-> ""]})

NextLaunch ==
  \/ PollOk
  \/ PollFail

SpecLaunch == InitLaunch /\ [][NextLaunch]_vars

(***************************************************************************)
(* Claims.                                                                 *)
(***************************************************************************)
\* the ids in a list of warnings
Ids(w) == {w[i].id : i \in 1..Len(w)}

\* the last handler was a _warnings call that returned a list under a profile
Returned == resp.op = "stats" /\ resp.exc = "" /\ ~Falsy(thresh)

\* C1 (as claimed): for each two-tier rule, a checked value at or above the rule's
\* *_crit threshold puts the rule's critical warning in the returned list and keeps
\* the rule's warning-level entry out of it -- for every profile and every non-null
\* reading, the reading 0 included.
C1_MonotonicSeverity ==
  Returned =>
    LET s   == resp.sample
        ids == Ids(resp.warnings)
        cs  == sustained.cpu
        gs  == sustained.gpu
    IN  /\ (s.cpu.temp # <<>> /\ s.cpu.temp[1] >= thresh.cpu.temp_crit)
             => ("cpu_temp_crit" \in ids /\ "cpu_temp_warn" \notin ids)
        /\ (s.gpu.temp # <<>> /\ s.gpu.temp[1] >= thresh.gpu.temp_crit)
             => ("gpu_temp_crit" \in ids /\ "gpu_temp_warn" \notin ids)
        /\ (s.ram.usage_percent >= thresh.ram.usage_crit)
             => ("ram_crit" \in ids /\ "ram_warn" \notin ids)
        /\ (Len(cs) >= SustainCount(thresh) /\ Sum(cs) >= thresh.cpu.usage_crit * Len(cs))
             => ("cpu_sc" \in ids /\ "cpu_sw" \notin ids)
        /\ (/\ s.gpu.usage # <<>>
            /\ Len(gs) >= SustainCount(thresh)
            /\ Sum(gs) >= thresh.gpu.usage_crit * Len(gs))
             => ("gpu_sc" \in ids /\ "gpu_sw" \notin ids)

\* a sample with a null among cpu.temp, gpu.temp, cpu.voltage, gpu.usage
HasNull(s) ==
  s.cpu.temp = <<>> \/ s.gpu.temp = <<>> \/ s.cpu.voltage = <<>> \/ s.gpu.usage = <<>>

Observed(id, s) ==
  CASE id \in {"cpu_temp_crit", "cpu_temp_warn"} -> s.cpu.temp[1]
    [] id \in {"gpu_temp_crit", "gpu_temp_warn"} -> s.gpu.temp[1]
    [] id \in {"cpu_volt_high", "cpu_volt_low"}  -> s.cpu.voltage[1]
    [] id \in {"ram_crit", "ram_warn"}           -> s.ram.usage_percent
    [] id \in {"cpu_sc", "cpu_sw"} -> RoundHalfEven(Sum(sustained.cpu), Len(sustained.cpu))
    [] id \in {"gpu_sc", "gpu_sw"} -> RoundHalfEven(Sum(sustained.gpu), Len(sustained.gpu))
    [] id = "net_spike"                          -> s.network.download_display

C8_InvalidProfileRaises ==
  (resp.op = "stats" /\ Falsy(thresh)) => resp.exc # ""

\* the defaults detected for this machine
Detected == detected(sysinfo.cpu_name, sysinfo.gpu_name)

\* C9 (as claimed): when start-up finds the profile file unreadable, the in-memory
\* profile becomes the detected defaults and the file is overwritten with them (seen
\* when the load step is over), and a later valid threshold update is not answered
\* with an error.
C9_CorruptFileRecovered ==
  (boot \in {"corrupt", "truncated"}) =>
    /\ (pc = "warm") => (thresh = Detected /\ file = Stored(Detected))
    /\ (resp.op = "thresholds_post") => resp.status # 500

\* C10 (as claimed): at every point of a save, a crash in the middle of it included,
\* the file holds the complete previous content or the complete new profile, never
\* an emptied or partly written one.
C10_SaveAtomic ==
  /\ file.kind # "truncated"
  /\ (io.op = "writing") => (file = io.prev \/ file = Stored(io.data))
Min(a, b) == IF a <= b THEN a ELSE b

\* the capacity the CPU / GPU sustained window is specified to have
CpuCapacity == Max(1, thresh.cpu.usage_sustain_sec \div POLL_DIVISOR)
GpuCapacity == Max(1, thresh.gpu.usage_sustain_sec \div POLL_DIVISOR)

\* every entry of q is at least x
AllAtLeast(q, x) == \A i \in 1..Len(q) : q[i] >= x

\* C3 (as claimed): from an empty CPU window, while every call carries a cpu.usage at
\* or above usage_crit, calls 1 .. capacity-1 return no CPU sustained warning and
\* call number capacity returns the critical one, capacity being
\* max(1, usage_sustain_sec // 5) for every configured usage_sustain_sec.
C3_SustainedBoundary ==
  (/\ Returned
   /\ calls = Len(pushed.cpu)
   /\ AllAtLeast(pushed.cpu, thresh.cpu.usage_crit)) =>
    LET ids == Ids(resp.warnings)
    IN  /\ (calls < CpuCapacity) => ids \cap {"cpu_sc", "cpu_sw"} = {}
        /\ (calls = CpuCapacity) => "cpu_sc" \in ids

\* C4 (as claimed): the CPU and GPU sustained windows never hold more than
\* max(1, usage_sustain_sec // 5) samples and the network window never more than
\* 3 x baseline_samples; each holds the most recent pushes, the oldest evicted.
C4_WindowsBounded ==
  (~Falsy(thresh)) =>
    /\ Len(sustained.cpu) <= CpuCapacity
    /\ Len(sustained.gpu) <= GpuCapacity
    /\ Len(net_base) <= 3 * thresh.network.baseline_samples
    /\ sustained.cpu = LastN(pushed.cpu, Min(Len(pushed.cpu), CpuCapacity))
    /\ sustained.gpu = LastN(pushed.gpu, Min(Len(pushed.gpu), GpuCapacity))
    /\ net_base = LastN(pushed.net, Min(Len(pushed.net), 3 * thresh.network.baseline_samples))

\* C5 (as claimed): for baseline_samples >= 1 the network rule is active as soon as
\* baseline_samples download readings were pushed; an active rule returns exactly one
\* network spike warning, of level warning, exactly when the mean of the last
\* baseline_samples pushed readings is above 10 and the current reading is above that
\* mean times spike_multiplier; otherwise the list has no network spike warning.
C5_NetworkRule ==
  (Returned /\ thresh.network.baseline_samples >= 1) =>
    LET nb     == thresh.network.baseline_samples
        dn     == resp.sample.network.download_kbps
        active == Len(pushed.net) >= nb
        total  == Sum(LastN(pushed.net, nb))
        spikes == {i \in 1..Len(resp.warnings) : resp.warnings[i].id = "net_spike"}
    IN  IF /\ active
           /\ total > BASELINE_FLOOR * nb
           /\ dn * nb > total * thresh.network.spike_multiplier
          THEN /\ Cardinality(spikes) = 1
               /\ \A i \in spikes : resp.warnings[i].level = "warning"
          ELSE spikes = {}

\* C6: a call in which the mean of the last baseline_samples pushed download readings
\* is at most 10 returns no network spike warning, whatever the current reading and
\* spike_multiplier are.
C6_BaselineFloor ==
  (/\ Returned
   /\ thresh.network.baseline_samples >= 1
   /\ Len(pushed.net) >= thresh.network.baseline_samples
   /\ Sum(LastN(pushed.net, thresh.network.baseline_samples))
        <= BASELINE_FLOOR * thresh.network.baseline_samples)
    => "net_spike" \notin Ids(resp.warnings)

\* C6 witness: the rule is active, the mean is at most 10, and the current reading is
\* above the mean times spike_multiplier: only the floor keeps the warning away.
C6_Witness ==
  /\ Returned
  /\ thresh.network.baseline_samples >= 1
  /\ Len(pushed.net) >= thresh.network.baseline_samples
  /\ Sum(LastN(pushed.net, thresh.network.baseline_samples))
       <= BASELINE_FLOOR * thresh.network.baseline_samples
  /\ resp.sample.network.download_kbps * thresh.network.baseline_samples
       > Sum(LastN(pushed.net, thresh.network.baseline_samples))
           * thresh.network.spike_multiplier
  /\ "net_spike" \notin Ids(resp.warnings)
\* the last request was a POST /api/thresholds that got the given answer
Posted(status) == resp.op = "thresholds_post" /\ resp.status = status

\* a JSON number within the bounds of validation
NumberInRange(v) == v \notin NotNumbers /\ 0 <= v /\ v <= RANGE_MAX

\* C11 (as claimed): an accepted update carries, for every threshold it names, a
\* number within [0, 10000] - a string, null, boolean, nested object, negative or
\* over-range value makes the update fail - and the profile it leaves holds only
\* such numbers as threshold values.
C11_OnlyNumbersAccepted ==
  Posted(200) =>
    /\ \A sec \in DOMAIN resp.payload \cap ALLOWED_THRESHOLD_KEYS :
         IsDict(resp.payload[sec]) =>
           \A k \in DOMAIN resp.payload[sec] : NumberInRange(resp.payload[sec][k])
    /\ ~Falsy(thresh) =>
         \A sec \in ALLOWED_THRESHOLD_KEYS :
           \A k \in DOMAIN thresh[sec] : NumberInRange(thresh[sec][k])

\* C12 (as claimed): an update whose payload has a top-level section outside
\* {cpu, gpu, ram, voltage, network} is answered with a validation error.
C12_UnknownSectionRejected ==
  (/\ resp.op = "thresholds_post"
   /\ ~(DOMAIN resp.payload \subseteq ALLOWED_THRESHOLD_KEYS))
    => resp.status = 400
\* C13: a threshold update answered with a validation error leaves the in-memory
\* profile and the persisted profile exactly as the request found them, also when
\* some sections of the payload are valid.
C13_RejectedLeavesProfile ==
  Posted(400) => (thresh = resp.before /\ file = resp.file_before)

\* C13 witness: a payload with a valid cpu section and an invalid ram section was
\* rejected while the profile held a customised cpu.temp_warn.
C13_Witness ==
  /\ Posted(400)
  /\ {"cpu", "ram"} \subseteq DOMAIN resp.payload
  /\ _validate([cpu |-> resp.payload.cpu])
  /\ ~_validate([ram |-> resp.payload.ram])
  /\ ~Falsy(thresh)
  /\ thresh.cpu.temp_warn = 79
  /\ resp.payload.cpu.temp_warn # 79
\* C14 (as claimed): whenever there is a profile - after load, after accepted
\* updates, after reset - temp_warn <= temp_crit and usage_warn <= usage_crit hold
\* for cpu and gpu, and usage_warn <= usage_crit holds for ram.
C14_WarnBelowCrit ==
  (~Falsy(thresh)) =>
    /\ thresh.cpu.temp_warn  <= thresh.cpu.temp_crit
    /\ thresh.cpu.usage_warn <= thresh.cpu.usage_crit
    /\ thresh.gpu.temp_warn  <= thresh.gpu.temp_crit
    /\ thresh.gpu.usage_warn <= thresh.gpu.usage_crit
    /\ thresh.ram.usage_warn <= thresh.ram.usage_crit
\* the start-up has just loaded a profile from an existing, readable file
LoadedFromFile == pc = "warm" /\ boot = "ok" /\ file.kind = "ok" /\ file.data # None

\* C17: load_thresholds on a persisted profile returns every persisted value
\* unchanged and adds, with its detected default, every section and key of the
\* detected defaults that the persisted profile lacks, and nothing else.
C17_LoadBackfills ==
  LoadedFromFile =>
    LET saved    == file.data
        defaults == detected(sysinfo.cpu_name, sysinfo.gpu_name)
    IN  /\ DOMAIN thresh = DOMAIN saved \cup DOMAIN defaults
        /\ \A sec \in DOMAIN saved :
             /\ DOMAIN saved[sec] \subseteq DOMAIN thresh[sec]
             /\ \A k \in DOMAIN saved[sec] : thresh[sec][k] = saved[sec][k]
        /\ \A sec \in DOMAIN defaults :
             /\ DOMAIN defaults[sec] \subseteq DOMAIN thresh[sec]
             /\ \A k \in DOMAIN defaults[sec] :
                  (sec \notin DOMAIN saved \/ k \notin DOMAIN saved[sec])
                    => thresh[sec][k] = defaults[sec][k]
        /\ \A sec \in DOMAIN thresh :
             DOMAIN thresh[sec] \subseteq
               (IF sec \in DOMAIN saved THEN DOMAIN saved[sec] ELSE {})
               \cup (IF sec \in DOMAIN defaults THEN DOMAIN defaults[sec] ELSE {})

\* C17 witness: the file lacked the network section and cpu.usage_sustain_sec and
\* held a cpu.temp_warn other than the detected one; the loaded profile has all three.
C17_Witness ==
  /\ LoadedFromFile
  /\ "network" \notin DOMAIN file.data
  /\ "usage_sustain_sec" \notin DOMAIN file.data.cpu
  /\ file.data.cpu.temp_warn # detected(sysinfo.cpu_name, sysinfo.gpu_name).cpu.temp_warn
  /\ thresh.cpu.temp_warn = file.data.cpu.temp_warn
  /\ thresh.cpu.usage_sustain_sec = DEFAULT_THRESHOLDS.cpu.usage_sustain_sec
  /\ thresh.network = DEFAULT_THRESHOLDS.network
\* the start-up load has just returned a profile
JustLoaded == pc = "warm" /\ ~Falsy(thresh)

\* C18: right after load_thresholds returned a profile - read from an existing file,
\* or detected and persisted because the file was missing - a second load_thresholds
\* with the same hardware names returns the identical profile, and writes nothing.
C18_LoadIdempotent ==
  JustLoaded =>
    LET again == load_thresholds(file, sysinfo.cpu_name, sysinfo.gpu_name)
    IN  again.exc = "" /\ again.value = thresh /\ ~again.saves

\* C18 witness: the first load found no file, on a machine whose detected limits
\* differ from the generic ones, and left the file it wrote.
C18_Witness ==
  /\ JustLoaded
  /\ boot = "missing"
  /\ file = Stored(thresh)
  /\ thresh.cpu.temp_crit # DEFAULT_THRESHOLDS.cpu.temp_crit
\* C19: when POST /api/thresholds/reset returns, the in-memory profile and the
\* persisted profile both equal detect_thresholds(cpu_name, gpu_name), whatever
\* updates were accepted before.
C19_ResetRestoresDefaults ==
  (resp.op = "thresholds_reset" /\ resp.status = 200) =>
    /\ thresh = Detected
    /\ file = Stored(Detected)

\* C19 witness: the reset found a profile with a key a user added and a customised
\* value; neither is left.
C19_Witness ==
  /\ resp.op = "thresholds_reset"
  /\ resp.status = 200
  /\ ~Falsy(resp.before)
  /\ "my_key" \in DOMAIN resp.before.cpu
  /\ resp.before.ram.usage_warn = PY_STR
  /\ "my_key" \notin DOMAIN thresh.cpu
  /\ thresh.ram.usage_warn = DEFAULT_THRESHOLDS.ram.usage_warn
\* the keys the payload d names in section sec
Named(d, sec) == IF sec \in DOMAIN d /\ IsDict(d[sec]) THEN DOMAIN d[sec] ELSE {}

\* the update of profile before by payload d left the profile now: every key that d
\* names in one of the given sections has d's value, every other key of before is
\* as it was, and there is no further key
Merged(before, d, now, sections) ==
  /\ DOMAIN now = DOMAIN before
  /\ \A sec \in DOMAIN before :
       LET named == IF sec \in sections THEN Named(d, sec) ELSE {}
       IN  /\ DOMAIN now[sec] = DOMAIN before[sec] \cup named
           /\ \A k \in named : now[sec][k] = d[sec][k]
           /\ \A k \in DOMAIN before[sec] \ named : now[sec][k] = before[sec][k]

\* C20 (as claimed): an accepted update changes exactly the keys named in the
\* payload, to the payload's values, leaves every other key of the in-memory profile
\* unchanged, and when it returns the persisted profile equals the in-memory one.
C20_UpdateFrame ==
  (Posted(200) /\ ~Falsy(resp.before)) =>
    /\ \A sec \in DOMAIN resp.payload : sec \in DOMAIN thresh /\ IsDict(resp.payload[sec])
    /\ Merged(resp.before, resp.payload, thresh, DOMAIN resp.payload)
    /\ file = Stored(thresh)
\* the threads that are inside _live_stats
Running == {th \in Threads : threads[th].at # "idle"}

\* C15 (as claimed): at most one execution of _warnings is in progress at any time.
C15_OneEvaluateAtATime == Cardinality(Running) <= 1

\* C16 (as claimed): the window contents a call uses for its checks end with that
\* call's own sample: the copy of the CPU window it took, and the network window it
\* read for the spike check.
C16_WindowsEndWithOwnSample ==
  /\ \A th \in Threads :
       threads[th].at \in {"net_append", "net_check"} =>
         threads[th].cs[Len(threads[th].cs)] = threads[th].s.cpu.usage
  /\ (resp.op = "stats" /\ "net_view" \in DOMAIN resp /\ resp.net_view # <<>>) =>
       resp.net_view[Len(resp.net_view)] = resp.sample.network.download_kbps
\* the place of a warning's rule in the order of the checks
Category(id) ==
  CASE id \in {"cpu_temp_crit", "cpu_temp_warn"} -> 1
    [] id \in {"gpu_temp_crit", "gpu_temp_warn"} -> 2
    [] id \in {"cpu_volt_high", "cpu_volt_low"}  -> 3
    [] id \in {"ram_crit", "ram_warn"}           -> 4
    [] id \in {"cpu_sc", "cpu_sw"}               -> 5
    [] id \in {"gpu_sc", "gpu_sw"}               -> 6
    [] id = "net_spike"                          -> 7

\* C21: the returned list is ordered by rule category - CPU temperature, GPU
\* temperature, CPU voltage, RAM, CPU sustained, GPU sustained, network spike -
\* whatever the levels of its entries are.
C21_OrderedByCategory ==
  (resp.op = "stats" /\ resp.exc = "") =>
    \A i, j \in 1..Len(resp.warnings) :
      i < j => Category(resp.warnings[i].id) < Category(resp.warnings[j].id)

\* C21 witness: a list of at least five entries in which a warning-level entry
\* stands before a critical one.
C21_Witness ==
  /\ resp.op = "stats"
  /\ resp.exc = ""
  /\ Len(resp.warnings) >= 5
  /\ \E i, j \in 1..Len(resp.warnings) :
       /\ i < j
       /\ resp.warnings[i].level = "warning"
       /\ resp.warnings[j].level = "critical"
QuietButHotCpu ==
  [cpu     |-> [usage |-> 10, temp |-> <<95>>, voltage |-> <<>>],
   gpu     |-> [usage |-> <<5>>, temp |-> <<40>>],
   ram     |-> [usage_percent |-> 30],
   network |-> [download_kbps |-> 50, download_display |-> download_display(50)]]

\* C23: a rule whose checked value is below its warn threshold contributes no
\* warning; in particular the first call of a process under the generic default
\* profile, on the sample cpu temp 95 / usage 10, gpu temp 40 / usage 5, ram 30 %,
\* download 50 KB/s, returns exactly the CPU temperature critical warning.
C23_BelowWarnIsSilent ==
  Returned =>
    LET s   == resp.sample
        ids == Ids(resp.warnings)
    IN  /\ (s.cpu.temp # <<>> /\ s.cpu.temp[1] < thresh.cpu.temp_warn)
             => ids \cap {"cpu_temp_crit", "cpu_temp_warn"} = {}
        /\ (s.gpu.temp # <<>> /\ s.gpu.temp[1] < thresh.gpu.temp_warn)
             => ids \cap {"gpu_temp_crit", "gpu_temp_warn"} = {}
        /\ (s.ram.usage_percent < thresh.ram.usage_warn)
             => ids \cap {"ram_crit", "ram_warn"} = {}
        /\ (Sum(sustained.cpu) < thresh.cpu.usage_warn * Len(sustained.cpu))
             => ids \cap {"cpu_sc", "cpu_sw"} = {}
        /\ (Sum(sustained.gpu) < thresh.gpu.usage_warn * Len(sustained.gpu))
             => ids \cap {"gpu_sc", "gpu_sw"} = {}
        /\ (s = QuietButHotCpu /\ calls = 1 /\ thresh = Generic)
             => resp.warnings =
                  <<Warning("cpu_temp_crit", "critical", "CPU",
                            Message("CPU temp critical: ", 95, "C"))>>

\* C23 witness: the worked example itself.
C23_Witness ==
  /\ Returned
  /\ resp.sample = QuietButHotCpu
  /\ calls = 1
  /\ thresh = Generic
  /\ Ids(resp.warnings) = {"cpu_temp_crit"}
\* the table entries whose key is a case-insensitive substring of name
Matching(map, name) ==
  {i \in 1..Len(map) : IsSubstring(map[i].key, lower(chars(or_empty(name))))}

\* the table entry of least index among those of m
Earliest(m) == CHOOSE i \in m : \A j \in m : i <= j

\* a detect_thresholds call has returned
Called == detect.calls > 0

\* C24: detect_thresholds overrides the CPU temperature and voltage limits with those
\* of the first CPU table entry, in table order, whose key is a case-insensitive
\* substring of cpu_name, and the GPU temperature limits with those of the first
\* matching GPU table entry; every other field keeps its generic default
\* ("AMD Ryzen 9 5900X" gives cpu temp_crit 90, "NVIDIA GeForce RTX 3080" gives gpu
\* temp_crit 93).
C24_FirstMatchWins ==
  Called =>
    LET r  == detect.result
        d  == DEFAULT_THRESHOLDS
        cm == Matching(CPU_THERMAL_MAP, detect.cpu_name)
        gm == Matching(GPU_THERMAL_MAP, detect.gpu_name)
    IN  /\ cm # {} =>
              LET v == CPU_THERMAL_MAP[Earliest(cm)].vals
              IN  /\ r.cpu.temp_warn = v.temp_warn /\ r.cpu.temp_crit = v.temp_crit
                  /\ r.cpu.volt_min = v.volt_min /\ r.cpu.volt_max = v.volt_max
                  /\ r.voltage = [cpu_min |-> v.volt_min, cpu_max |-> v.volt_max]
        /\ cm = {} => r.cpu = d.cpu /\ r.voltage = d.voltage
        /\ gm # {} =>
              LET v == GPU_THERMAL_MAP[Earliest(gm)].vals
              IN  r.gpu.temp_warn = v.temp_warn /\ r.gpu.temp_crit = v.temp_crit
        /\ gm = {} => r.gpu = d.gpu
        /\ DOMAIN r = DOMAIN d \cup {"detected_from"}
        /\ DOMAIN r.cpu = DOMAIN d.cpu /\ DOMAIN r.gpu = DOMAIN d.gpu
        /\ \A k \in {"usage_warn", "usage_crit", "usage_sustain_sec"} :
              r.cpu[k] = d.cpu[k] /\ r.gpu[k] = d.gpu[k]
        /\ r.ram = d.ram /\ r.network = d.network
        /\ detect.cpu_name = "AMD Ryzen 9 5900X" => r.cpu.temp_crit = 90
        /\ detect.gpu_name = "NVIDIA GeForce RTX 3080" =>
              r.gpu.temp_crit = 93 /\ d.gpu.temp_crit = 95

\* C24 witness: an upper-case CPU name and a GPU name that holds two table keys, the
\* later one in the name being the earlier one in the table.
C24_Witness ==
  /\ Called
  /\ detect.cpu_name = "INTEL(R) CORE(TM) I9-13900K"
  /\ detect.gpu_name = "NVIDIA GeForce RTX 4090 + RTX 3080"
  /\ Cardinality(Matching(GPU_THERMAL_MAP, detect.gpu_name)) = 2
  /\ detect.result.cpu.temp_crit = 100
  /\ detect.result.gpu.temp_crit = 90

\* C25: in any sequence of detect_thresholds calls, a call whose cpu_name and gpu_name
\* (empty and null names included) match no table entry returns exactly the generic
\* default limits plus the provenance metadata; what earlier calls for known hardware
\* wrote never shows in it.
C25_UnknownIsGeneric ==
  (/\ Called
   /\ Matching(CPU_THERMAL_MAP, detect.cpu_name) = {}
   /\ Matching(GPU_THERMAL_MAP, detect.gpu_name) = {})
  => detect.result =
       [cpu |-> DEFAULT_THRESHOLDS.cpu, gpu |-> DEFAULT_THRESHOLDS.gpu,
        ram |-> DEFAULT_THRESHOLDS.ram, network |-> DEFAULT_THRESHOLDS.network,
        voltage |-> DEFAULT_THRESHOLDS.voltage,
        detected_from |->
          [cpu |-> IF detect.cpu_name \in {"", NoName} THEN "Unknown" ELSE detect.cpu_name,
           gpu |-> IF detect.gpu_name \in {"", NoName} THEN "Unknown" ELSE detect.gpu_name]]

\* C25 witness: a call with a null CPU name and an empty GPU name, made after a call
\* that matched both tables, returns the generic limits.
C25_Witness ==
  /\ detect.calls >= 2
  /\ \E e \in detect.earlier :
        /\ Matching(CPU_THERMAL_MAP, e[1]) # {}
        /\ Matching(GPU_THERMAL_MAP, e[2]) # {}
  /\ detect.cpu_name = NoName
  /\ detect.gpu_name = ""
  /\ detect.result.cpu = DEFAULT_THRESHOLDS.cpu
  /\ detect.result.gpu = DEFAULT_THRESHOLDS.gpu
  /\ detect.result.detected_from = [cpu |-> "Unknown", gpu |-> "Unknown"]
\* how many admissions of address ip carry a time stamp in [x, x + RL_WIN)
AdmittedFrom(ip, x) ==
  LET b == admitted[ip]
      RECURSIVE Total(_)
      Total(S) == IF S = {} THEN 0
                  ELSE LET t == CHOOSE u \in S : TRUE
                       IN  b[t] + Total(S \ {t})
  IN  Total({t \in DOMAIN b : x <= t /\ t < x + RL_WIN})

\* C26: for every address that is not the local one, under any interleaving of
\* concurrent requests, no sliding window of RL_WIN holds more than RL_MAX rate-limit
\* admissions (a request that finds RL_MAX admissions within its window is answered
\* 429); requests from 127.0.0.1 and ::1 are never rate limited.
C26_AtMostMaxPerWindow ==
  /\ \A ip \in DOMAIN admitted :
        \A x \in DOMAIN admitted[ip] : AdmittedFrom(ip, x) <= RL_MAX
  /\ \A ip \in LOCALHOST :
        /\ ip \notin DOMAIN rl
        /\ ip \notin DOMAIN admitted
        /\ \A i \in 1..Len(traffic(ip).status) : traffic(ip).status[i] # 429
\* the request threads that are serving address ip
Serving(ip) == {th \in Threads : reqs[th].at # "idle" /\ reqs[th].ip = ip}

\* C27: rate limiting triggers at request RL_MAX + 1: a client that is not local and
\* whose window is empty gets its first RL_MAX /api/stats requests within RL_WIN
\* admitted, each request taking exactly one slot of the window, and only request
\* RL_MAX + 1 is answered 429.
C27_LimitAtMaxPlusOne ==
  \A ip \in DOMAIN answers \ LOCALHOST :
     clock < RL_WIN =>
       LET st == answers[ip].status
       IN  /\ \A i \in 1..Len(st) : i <= RL_MAX => st[i] # 429
           /\ Serving(ip) = {} =>
                Len(rl_get(rl, ip)) = Cardinality({i \in 1..Len(st) : st[i] # 429})
\* a request thread is serving a POST request of an address that is not local
RemotePost(q) == q.at # "idle" /\ q.method = "POST" /\ q.ip \notin LOCALHOST

\* no such request is ever past the guard
C28_NeverPastGuard == \A th \in Threads : RemotePost(reqs[th]) => reqs[th].at = "rl"

\* a step of such a request leaves the profile, its file, the fan preset and the
\* benchmark state alone, and its answer is 403 or 429
C28_StepOfRemotePost ==
  \A th \in Threads :
     /\ (reqs[th].at = "idle" /\ RemotePost(reqs'[th])) =>
           UNCHANGED <<thresh, file, io, fan, bench>>
     /\ (RemotePost(reqs[th]) /\ reqs'[th] # reqs[th]) =>
           /\ UNCHANGED <<thresh, file, io, fan, bench>>
           /\ reqs'[th].at = "idle"
           /\ \E code \in {403, 429} :
                 answers'[reqs[th].ip].status =
                   Append(traffic(reqs[th].ip).status, code)

\* C28: a POST request from any address that is not local is stopped by the request
\* guard (403, or 429 when the address is rate limited) and its handler never runs:
\* the threshold profile in memory and on disk, the fan preset and the benchmark
\* state are unchanged by it.
C28_RemotePostStopped == []C28_NeverPastGuard /\ [][C28_StepOfRemotePost]_vars

\* C28 witness: the remote address has been answered 403 and 429, after a local POST
\* has changed the profile.
C28_Witness ==
  /\ \E ip \in DOMAIN answers \ LOCALHOST :
        /\ \E i \in 1..Len(answers[ip].status) : answers[ip].status[i] = 403
        /\ \E i \in 1..Len(answers[ip].status) : answers[ip].status[i] = 429
  /\ ~Falsy(thresh)
  /\ thresh.cpu.temp_warn = 70
  /\ file = Stored(thresh)
\* the benchmark runs in progress: the workers alive and those about to be started
RunsInProgress ==
  Len(bench.workers) + Cardinality({th \in Threads : reqs[th].at = "spawn"})

\* thread th is about to run api_forge_benchmark
AtBenchView(th) == reqs[th].at = "view" /\ reqs[th].route = "/api/forge/benchmark"

\* thread th's request is answered with code in this step
AnsweredWith(th, code) ==
  /\ reqs'[th].at = "idle"
  /\ answers'[reqs[th].ip].status = Append(traffic(reqs[th].ip).status, code)

\* at most one run is in progress, and running says whether one is
C29_AtMostOneRun ==
  /\ RunsInProgress <= 1
  /\ bench.running <=> RunsInProgress = 1

\* what a request finds when its view runs: with a mode that is not valid 400; else
\* 409 while running is true; else it sets running and goes on to start the one worker
C29_StepOfView ==
  \A th \in Threads :
     (AtBenchView(th) /\ reqs'[th] # reqs[th]) =>
        IF reqs[th].data.mode \notin BENCH_MODES
          THEN AnsweredWith(th, 400) /\ UNCHANGED bench
        ELSE IF bench.running
          THEN AnsweredWith(th, 409) /\ UNCHANGED bench
        ELSE reqs'[th].at = "spawn" /\ bench'.running /\ bench'.started = bench.started

\* C29 as the code has it: at most one benchmark run is in progress at any time; under
\* any interleaving of concurrent POST /api/forge/benchmark requests, a request with a
\* valid mode that is handled while running is true gets 409 and starts no worker, one
\* with an invalid mode gets 400 and starts none either, and of several simultaneous
\* valid requests exactly one starts a worker.
C29_SingleRun == []C29_AtMostOneRun /\ [][C29_StepOfView]_vars

\* C29 witness: two requests were served at once; one started the worker, which is
\* still running, the other got 409.
C29_Witness ==
  /\ "127.0.0.1" \in DOMAIN answers
  /\ answers["127.0.0.1"].status = <<409, 200>>
  /\ bench.running
  /\ Len(bench.workers) = 1
  /\ bench.started = 1

\* C29 as stated: whatever it carries, a request that is handled while running is true
\* gets 409 and starts no worker.
C29_Always409 ==
  [][\A th \in Threads :
       (AtBenchView(th) /\ bench.running /\ reqs'[th] # reqs[th]) =>
          AnsweredWith(th, 409) /\ UNCHANGED bench]_vars
\* how many times entry e stands in the session log
Written(e) == Cardinality({i \in DOMAIN log.file : log.file[i] = e})

\* some request thread has taken entries out of the buffer and not yet written them
FlushInFlight == \E th \in DOMAIN reqs : reqs[th].at = "write"

\* C30, first half: no entry appended to the log buffer is written to the session log
\* more than once
C30_AtMostOnce == \A e \in 1..log.appended : Written(e) <= 1

\* C30: every entry appended to the log buffer is written to the session log at most
\* once, and once the final flush (that of api_shutdown) has completed without I/O
\* failure and no other flush is still writing, every entry appended before it has been
\* written exactly once
C30_ExactlyOnceAfterFinalFlush ==
  /\ C30_AtMostOnce
  /\ (log.final = "ok" /\ ~FlushInFlight) => \A e \in 1..log.upto : Written(e) = 1


\* C31 (as claimed): once N = max(1, cpu.usage_sustain_sec // 5) readings were pushed,
\* the value compared with usage_crit / usage_warn is the mean of the N most recent
\* cpu.usage readings only: the call returns cpu_sc exactly when that mean is at or
\* above usage_crit, and cpu_sw exactly when it is below usage_crit and at or above
\* usage_warn.
C31_MeanOfLastN ==
  (/\ Returned
   /\ calls = Len(pushed.cpu)
   /\ Len(pushed.cpu) >= CpuCapacity) =>
    LET last == LastN(pushed.cpu, CpuCapacity)
        ids  == Ids(resp.warnings)
    IN  /\ ("cpu_sc" \in ids) <=> (Sum(last) >= thresh.cpu.usage_crit * CpuCapacity)
        /\ ("cpu_sw" \in ids) <=> (/\ Sum(last) < thresh.cpu.usage_crit * CpuCapacity
                                   /\ Sum(last) >= thresh.cpu.usage_warn * CpuCapacity)


\* every entry of q is below x
AllBelow(q, x) == \A i \in 1..Len(q) : q[i] < x

\* C32 (as claimed): the GPU sustained rule works with the GPU's own settings: a call
\* with a GPU usage reading returns no GPU sustained warning while fewer than
\* max(1, gpu.usage_sustain_sec // 5) readings were pushed; from then on it returns
\* gpu_sc when every reading pushed is at or above gpu.usage_crit and nothing when
\* every one is below gpu.usage_warn, whatever cpu.usage_sustain_sec is.
C32_GpuOwnSettings ==
  (Returned /\ resp.sample.gpu.usage # <<>>) =>
    LET ids == Ids(resp.warnings) \cap {"gpu_sc", "gpu_sw"}
    IN  /\ (Len(pushed.gpu) < GpuCapacity) => ids = {}
        /\ (Len(pushed.gpu) >= GpuCapacity /\ AllAtLeast(pushed.gpu, thresh.gpu.usage_crit))
             => ids = {"gpu_sc"}
        /\ (Len(pushed.gpu) >= GpuCapacity /\ AllBelow(pushed.gpu, thresh.gpu.usage_warn))
             => ids = {}

\* the step is a _live_stats call that returned its warnings
StatsCallReturns == calls' = calls + 1 /\ resp'.op = "stats" /\ resp'.exc = ""

\* C33: a _live_stats call whose gpu.usage is null leaves the GPU sustained window as
\* it was (nothing pushed, nothing evicted) and pushes its cpu.usage onto the CPU
\* sustained window, the oldest entry leaving a window of SUSTAINED_MAXLEN.
C33_StepOfNullGpu ==
  (StatsCallReturns /\ resp'.sample.gpu.usage = <<>>) =>
    /\ sustained'.gpu = sustained.gpu
    /\ pushed'.gpu = pushed.gpu
    /\ sustained'.cpu # <<>>
    /\ sustained'.cpu[Len(sustained'.cpu)] = resp'.sample.cpu.usage
    /\ IF Len(sustained.cpu) < SUSTAINED_MAXLEN
         THEN sustained'.cpu = Append(sustained.cpu, resp'.sample.cpu.usage)
         ELSE sustained'.cpu = Append(Tail(sustained.cpu), resp'.sample.cpu.usage)

C34_AcceptedIsComputable ==
  (resp.op = "stats" /\ ~Falsy(thresh)) => resp.exc = ""

\* what a _warnings call returns that reads every threshold from profile p, on sample s
\* and the windows cs, gs and view
Whole(p, s, cs, gs, view) ==
  Then(Then(Then(Then(Then(Then(Then(CpuTempRule(p, s.cpu.temp), GpuTempRule(p, s.gpu.temp)),
                                VoltageRule(p, s.cpu.voltage)),
                           RamRule(p, s.ram.usage_percent)),
                      SustainCountRule(p)),
                 CpuSustainRule(p, cs)),
            GpuSustainRule(p, gs)),
       NetworkRule(p, view, s.network))

\* C35 (as claimed): a _warnings call that runs while the thresholds are updated or
\* reset returns what one profile gives: the profile _thresh held at some moment of
\* the call, read for every threshold.
C35_StepOfReturn ==
  \A th \in Threads :
    (threads[th].at = "net_check" /\ threads'[th].at = "idle") =>
      \E p \in threads[th].during :
        LET l == threads[th]
            o == Whole(p, l.s, l.cs, l.gs, resp'.net_view)
        IN  resp'.exc = o.exc /\ resp'.warnings = o.w

C35_ConsistentProfile == [][C35_StepOfReturn]_vars

Deciding(th) == reqs[th].at = "fb_dup" /\ reqs'[th].at = "idle"

\* the stamps of the submissions with the category and normalized message of thread
\* th's that were accepted so far
AcceptedLike(th) ==
  LET key == <<reqs[th].cat, lower(strip(reqs[th].msg))>>
  IN  IF key \in DOMAIN fb.passed
        THEN {fb.passed[key][i] : i \in DOMAIN fb.passed[key]} ELSE {}

\* C37: a submission is rejected as a duplicate (429, _fb_dedup left as it is) when a
\* submission of the same category and normalized message was accepted with a time
\* stamp less than FB_DEDUP_WIN before its own (or after its own), and accepted (its
\* stamp stored) when every such acceptance lies FB_DEDUP_WIN or more back, or there is
\* none; this under every interleaving of the submissions' steps.
C37_StepOfDuplicateCheck ==
  \A th \in FbThreads :
    Deciding(th) =>
      LET now == reqs[th].now
          st  == answers'[reqs[th].ip].status
      IN  IF \E a \in AcceptedLike(th) : now - a < FB_DEDUP_WIN
            THEN /\ st[Len(st)] = 429
                 /\ fb'.dedup = fb.dedup
                 /\ fb'.passed = fb.passed
            ELSE /\ st[Len(st)] = 200
                 /\ fb'.dedup[fb_key(reqs[th].cat, reqs[th].msg)] = now

Committed == {ci.git[i][2] : i \in DOMAIN ci.git}

\* C38: every run that caused a commit or a push had its job logs fetched, was diagnosed
\* as an issue marked fix = 'auto_fix', and had a fix function report a changed file; so
\* no run without logs, undiagnosed or marked 'log_and_escalate' caused one.
C38_PushOnlyAutoFixed ==
  \A run_id \in Committed :
    /\ run_id \in DOMAIN ci.handled
    /\ LET h == ci.handled[run_id]
           k == _diagnose_ci_failure(h.logs_text)
       IN  /\ h.logs_text # <<>>
           /\ k # 0
           /\ CI_KNOWN_ISSUES[k].fix = "auto_fix"
           /\ h.files_changed # <<>>

\* the run with the missing module was fixed and pushed, while the run without logs, the
\* undiagnosed one and the one with failed tests were handled with no git command
C38_Witness ==
  /\ DOMAIN ci.handled = 1..5
  /\ \E i \in DOMAIN ci.git : ci.git[i] = <<"push", 5>>
  /\ \A id \in 1..3 : id \notin Committed
  /\ ci.handled[3].logs_text # <<>>

\* the number of times the loop of poll_cycle handled the bug at place i of bug.jsonl
TimesHandled(i) == Cardinality({n \in 1..Len(bugs.handled) : bugs.handled[n] = i})

\* the lines of escalated.jsonl that hold the bug at place i of bug.jsonl
EscalatedLines(i) ==
  {n \in 1..Len(bugs.escalated) :
     /\ bugs.escalated[n].id = bugs.file[i].id
     /\ bugs.escalated[n].message = bugs.file[i].message}

\* C39: no bug is ever handled twice, and once poll_cycle has returned, every bug that
\* was open and not in seen_ids when a cycle loaded it has been handled exactly once:
\* it carries the status and the fix summary poll_cycle decides for it, is not open,
\* and is in escalated.jsonl exactly once if that status is 'escalated'.
C39_EachBugHandledOnce ==
  /\ \A i \in 1..Len(bugs.file) : TimesHandled(i) <= 1
  /\ bugs.at = "idle" =>
       \A i \in bugs.due :
         LET d == decide(bugs.file[i])
         IN  /\ TimesHandled(i) = 1
             /\ bugs.file[i].status = d.status
             /\ bugs.file[i].fix_summary = d.fix_summary
             /\ bugs.file[i].status # "open"
             /\ d.status = "escalated" => Cardinality(EscalatedLines(i)) = 1

\* the number of failed polls at the end of launcher.polls
TrailingFailures ==
  LET p == launcher.polls
      Run(n) == n <= Len(p) /\ \A i \in (Len(p) - n + 1)..Len(p) : p[i] = "failed"
  IN  CHOOSE n \in 0..Len(p) : Run(n) /\ ~Run(n + 1)

\* C40: the launcher has exited exactly when the last FAILURES_TO_EXIT polls all failed;
\* its count is the number of failed polls since the last one that succeeded, so a
\* shorter run of failures followed by a success causes no exit.
C40_ExitAtFiveInARow ==
  /\ launcher.consecutive_failures = TrailingFailures
  /\ launcher.exited <=> TrailingFailures >= FAILURES_TO_EXIT

\* four failures, a success, and then the five failures at which the launcher exits
C40_Witness ==
  /\ launcher.exited
  /\ Len(launcher.polls) = 2 * FAILURES_TO_EXIT
  /\ launcher.polls[FAILURES_TO_EXIT] = "ok"
  /\ \A i \in 1..(FAILURES_TO_EXIT - 1) : launcher.polls[i] = "failed"
====
